---------------------------- MODULE Spec2Model ----------------------------
(***************************************************************************)
(* State-machine model of the club backend's request-validation and       *)
(* data-integrity pipeline (backend/app): public event registration,      *)
(* hackathon team sign-up and the rate-limited admin login.               *)
(*                                                                         *)
(* Strings are tuples of one-character strings so that the sanitizer and  *)
(* the schema validators can be computed character by character.          *)
(*                                                                         *)
(* Each subsystem has its own specification (SpecReg, SpecTeam,           *)
(* SpecLogin); the actions of one leave the variables of the others       *)
(* unchanged.                                                              *)
(***************************************************************************)
EXTENDS Integers, Sequences, FiniteSets, Bags, TLC

VARIABLES
    events,          \* table events: id -> [exists, is_active]
    registrations,   \* table registrations: set of committed rows
    regReq,          \* in-flight create_registration requests, one per slot
    hackathon_teams, \* table hackathon_teams: set of committed rows
    team_members,    \* table team_members: set of committed rows
    teamReq,         \* in-flight create_hackathon_team requests, one per slot
    users,           \* table users: username -> [exists, password_hash, is_active, last_login]
    storage,         \* limiter storage: counter of the login limit per client address
    expirations,     \* limiter storage: minutes until the counter of the address expires
    event_loop,      \* "busy" while a login request runs on the event loop, else "free"
    loginReq,        \* the bag of in-flight login requests
    admitted_log,    \* history: per age in minutes, the admitted attempts of Observed
    window_admitted, \* history: per key, the attempts admitted on the current counter
    call,            \* a call of a function of security.py or of an exception handler
    auth_now,        \* datetime.utcnow() in seconds, for the tokens
    tokens,          \* the access tokens issued by login and held by clients
    auth_resp,       \* the response to the last request of the authentication routes
    resources,       \* table resources: set of committed rows
    upload_root,     \* the files in the upload directory
    uuid4,           \* the number of results that uuid.uuid4() has returned
    resReq,          \* the request of the resource routes being served
    event_resp       \* the response to the last read of the events

regVars == <<events, registrations, regReq>>

teamVars == <<hackathon_teams, team_members, teamReq>>

loginVars ==
    <<users, storage, expirations, event_loop, loginReq, admitted_log, window_admitted>>

authVars == <<auth_now, tokens, auth_resp>>

resVars == <<resources, upload_root, uuid4, resReq>>

moreVars == <<call, authVars, resVars, event_resp>>

vars == <<events, registrations, regReq, hackathon_teams, team_members, teamReq,
          users, storage, expirations, event_loop, loginReq, admitted_log,
          window_admitted, call, auth_now, tokens, auth_resp, resources,
          upload_root, uuid4, resReq, event_resp>>

-----------------------------------------------------------------------------
(* Bounds of the model *)

\* number of create_registration requests that may be in flight at once
MaxRegConc == 2

\* number of create_hackathon_team requests that may be in flight at once
MaxTeamConc == 2

\* number of login requests that may be in flight at once
MaxLoginConc == 2

\* minutes by which the clock advances in one step
TickMinutes == 10

\* hits made or in flight on one counter of the limiter before it expires
MaxHits == 6

-----------------------------------------------------------------------------
(* Characters and strings *)

Digits == {"0", "1", "2", "3", "4", "5", "6", "7", "8", "9"}

Letters == {"a", "b", "c", "u", "x", "y", "z", "A", "B", "Z"}

Whitespace == {" "}

\* str.strip(): drop leading and trailing whitespace
RECURSIVE LStrip(_)
LStrip(s) ==
    IF s = <<>> THEN s
    ELSE IF Head(s) \in Whitespace THEN LStrip(Tail(s)) ELSE s

RECURSIVE RStrip(_)
RStrip(s) ==
    IF s = <<>> THEN s
    ELSE IF s[Len(s)] \in Whitespace THEN RStrip(SubSeq(s, 1, Len(s) - 1)) ELSE s

Strip(s) == RStrip(LStrip(s))

\* index of the first ">" of s at or after position i, 0 when there is none
RECURSIVE FindClose(_, _)
FindClose(s, i) ==
    IF i > Len(s) THEN 0
    ELSE IF s[i] = ">" THEN i ELSE FindClose(s, i + 1)

\* a "<" opens a tag when a letter or "/" follows it and a ">" closes it
IsTagAt(s, i) ==
    /\ s[i] = "<"
    /\ i + 1 <= Len(s)
    /\ s[i + 1] \in Letters \cup {"/"}
    /\ FindClose(s, i + 1) # 0

\* "&" already starts one of the entities bleach leaves alone
IsEntityAt(s, i) ==
    \/ i + 4 <= Len(s) /\ SubSeq(s, i, i + 4) = <<"&", "a", "m", "p", ";">>
    \/ i + 3 <= Len(s) /\ SubSeq(s, i, i + 3) = <<"&", "l", "t", ";">>
    \/ i + 3 <= Len(s) /\ SubSeq(s, i, i + 3) = <<"&", "g", "t", ";">>

\* bleach.clean(s, tags=[], attributes={}, strip=True): tags are removed,
\* the remaining markup characters are escaped
RECURSIVE BleachCleanFrom(_, _)
BleachCleanFrom(s, i) ==
    IF i > Len(s) THEN <<>>
    ELSE IF IsTagAt(s, i) THEN BleachCleanFrom(s, FindClose(s, i + 1) + 1)
    ELSE IF s[i] = "<" THEN <<"&", "l", "t", ";">> \o BleachCleanFrom(s, i + 1)
    ELSE IF s[i] = ">" THEN <<"&", "g", "t", ";">> \o BleachCleanFrom(s, i + 1)
    ELSE IF s[i] = "&" /\ ~IsEntityAt(s, i)
         THEN <<"&", "a", "m", "p", ";">> \o BleachCleanFrom(s, i + 1)
    ELSE <<s[i]>> \o BleachCleanFrom(s, i + 1)

BleachClean(s) == BleachCleanFrom(s, 1)

\* sanitize_string(input_str, max_length); max_length = 0 stands for None:
\* "if max_length and ..." treats both alike
sanitize_string(input_str, max_length) ==
    LET cleaned == Strip(BleachClean(input_str))
    IN  IF max_length # 0 /\ Len(cleaned) > max_length
        THEN SubSeq(cleaned, 1, max_length)
        ELSE cleaned

-----------------------------------------------------------------------------
(* Error envelope: what the exception handlers put on the wire *)

NoResp == [status |-> 0, code |-> ""]

Created == [status |-> 201, code |-> ""]

NotFoundError == [status |-> 404, code |-> "NOT_FOUND"]

ConflictError == [status |-> 409, code |-> "CONFLICT"]

RequestValidationError == [status |-> 422, code |-> "VALIDATION_ERROR"]

-----------------------------------------------------------------------------
(* Events and registrations *)

EventIds == {"e1", "e2"}

\* request bodies offered to create_registration
MoodleIdInputs ==
    { <<"2", "2", "1", "0", "4", "0", "0", "1">>,
      <<"2", "2", "1", "0", "4", "0", "0", "2">>,
      <<"2", "2", "1", "0">> }

OperativeNameInputs == { <<"a">>, <<"<", "b", ">", "a", " ">> }

OperativeNameMaxLen == 100

\* RegistrationCreate.validate_moodle_id: ^[a-zA-Z0-9]{8,12}$
validate_moodle_id(v) ==
    /\ Len(v) >= 8
    /\ Len(v) <= 12
    /\ \A i \in 1..Len(v) : v[i] \in Digits \cup Letters

\* RegistrationCreate: field constraints and the moodle_id validator
RegistrationCreate_valid(operative_name, moodle_id) ==
    /\ Len(operative_name) >= 1
    /\ Len(operative_name) <= 100
    /\ Len(moodle_id) >= 1
    /\ Len(moodle_id) <= 20
    /\ validate_moodle_id(moodle_id)

RegSlots == 1..MaxRegConc

IdleReg ==
    [pc |-> "idle", event_id |-> "", moodle_id |-> <<>>, operative_name |-> <<>>,
     dup_at_lookup |-> FALSE, resp |-> NoResp]

\* the lookup without its is_active filter
EventLookup_any_status(event_id) ==
    events[event_id].exists

\* db.query(Event).filter(Event.id == event_id, Event.is_active == True).first()
ActiveEventLookup(event_id) ==
    events[event_id].exists /\ events[event_id].is_active

\* rows of the table holding the pair (event_id, moodle_id)
RowsOfPair(rows, event_id, moodle_id) ==
    {row \in rows : row.event_id = event_id /\ row.moodle_id = moodle_id}

\* the table without its unique constraint
unique_event_moodle_absent(rows, event_id, moodle_id) ==
    TRUE

\* the constraint declared on moodle_id alone
unique_moodle_only(rows, event_id, moodle_id) ==
    {row \in rows : row.moodle_id = moodle_id} = {}

\* UniqueConstraint('event_id', 'moodle_id'): may the store accept the insert?
unique_event_moodle(rows, event_id, moodle_id) ==
    RowsOfPair(rows, event_id, moodle_id) = {}

\* Registration.id, default=uuid.uuid4: a fresh identifier, here the pair and
\* the rank of the row among the rows of its pair
NewRegistrationId(event_id, moodle_id) ==
    <<event_id, moodle_id, Cardinality(RowsOfPair(registrations, event_id, moodle_id)) + 1>>

\* the request is parsed against RegistrationCreate (a body that fails is
\* answered by validation_exception_handler and the handler never runs);
\* then lines 31-43: sanitize the name, look the event up, which must exist
\* and be active, else NotFoundError
create_registration_lookup(r) ==
    /\ regReq[r].pc = "idle"
    /\ \E e \in EventIds, m \in MoodleIdInputs, n \in OperativeNameInputs :
          LET dup == RowsOfPair(registrations, e, m) # {}
              q == [IdleReg EXCEPT !.event_id = e, !.moodle_id = m]
          IN  IF ~RegistrationCreate_valid(n, m)
              THEN regReq' = [regReq EXCEPT ![r] =
                       [q EXCEPT !.pc = "done", !.resp = RequestValidationError]]
              ELSE IF ActiveEventLookup(e)
              THEN regReq' = [regReq EXCEPT ![r] =
                       [q EXCEPT !.pc = "insert", !.dup_at_lookup = dup,
                           !.operative_name = sanitize_string(n, OperativeNameMaxLen)]]
              ELSE regReq' = [regReq EXCEPT ![r] =
                       [q EXCEPT !.pc = "done", !.dup_at_lookup = dup,
                           !.resp = NotFoundError]]
    /\ UNCHANGED <<events, registrations, teamVars, loginVars, moreVars>>

\* lines 45-65: db.add + db.commit; IntegrityError -> rollback, ConflictError
create_registration_insert(r) ==
    /\ regReq[r].pc = "insert"
    /\ LET q == regReq[r]
       IN  IF unique_event_moodle(registrations, q.event_id, q.moodle_id)
           THEN /\ registrations' = registrations \cup
                       {[id |-> NewRegistrationId(q.event_id, q.moodle_id),
                         event_id |-> q.event_id, moodle_id |-> q.moodle_id,
                         operative_name |-> q.operative_name]}
                /\ regReq' = [regReq EXCEPT ![r].pc = "done",
                                            ![r].operative_name = <<>>,
                                            ![r].resp = Created]
           ELSE /\ UNCHANGED registrations
                /\ regReq' = [regReq EXCEPT ![r].pc = "done",
                                            ![r].operative_name = <<>>,
                                            ![r].resp = ConflictError]
    /\ UNCHANGED <<events, teamVars, loginVars, moreVars>>

\* the response has been delivered; the slot takes the next request
reg_response_sent(r) ==
    /\ regReq[r].pc = "done"
    /\ regReq' = [regReq EXCEPT ![r] = IdleReg]
    /\ UNCHANGED <<events, registrations, teamVars, loginVars, moreVars>>

\* create_event (admin): a new row with a fresh id and is_active = True
create_event ==
    /\ \E e \in EventIds :
          /\ ~events[e].exists
          /\ events' = [events EXCEPT ![e] = [exists |-> TRUE, is_active |-> TRUE]]
    /\ UNCHANGED <<registrations, regReq, teamVars, loginVars, moreVars>>

\* update_event (admin): is_active is written when the body carries it
update_event ==
    /\ \E e \in EventIds, is_active \in {"None", "True", "False"} :
          /\ events[e].exists
          /\ events' = [events EXCEPT ![e].is_active =
                           IF is_active = "None" THEN @ ELSE is_active = "True"]
    /\ UNCHANGED <<registrations, regReq, teamVars, loginVars, moreVars>>

\* a delete_event that removes the row
delete_event_hard ==
    /\ \E e \in EventIds :
          /\ events[e].exists
          /\ events' = [events EXCEPT ![e] = [exists |-> FALSE, is_active |-> FALSE]]
    /\ UNCHANGED <<registrations, regReq, teamVars, loginVars, moreVars>>

\* delete_event (admin): soft delete
delete_event ==
    /\ \E e \in EventIds :
          /\ events[e].exists
          /\ events' = [events EXCEPT ![e].is_active = FALSE]
    /\ UNCHANGED <<registrations, regReq, teamVars, loginVars, moreVars>>

\* no read of the events yet
NoEventResp ==
    [op |-> "", event_id |-> "", is_active |-> "None", status |-> 0, body |-> {}]

\* an Event row as the responses carry it
EventResponse(e) == [id |-> e, is_active |-> events[e].is_active]

\* GET /api/events/{event_id}: the row of that id, whatever its is_active
get_event ==
    /\ \E event_id \in EventIds :
          event_resp' =
              IF events[event_id].exists
              THEN [op |-> "get_event", event_id |-> event_id, is_active |-> "None",
                    status |-> 200, body |-> {EventResponse(event_id)}]
              ELSE [op |-> "get_event", event_id |-> event_id, is_active |-> "None",
                    status |-> NotFoundError.status, body |-> {}]
    /\ UNCHANGED <<regVars, teamVars, loginVars, call, authVars, resVars>>

\* GET /api/events: the rows, filtered by is_active only when the query
\* carries it (the events of the model have no type to filter by)
get_events ==
    /\ \E is_active \in {"None", "True", "False"} :
          LET query == {e \in EventIds : events[e].exists}
              filtered == IF is_active # "None"
                          THEN {e \in query : events[e].is_active = (is_active = "True")}
                          ELSE query
          IN  event_resp' = [op |-> "get_events", event_id |-> "",
                             is_active |-> is_active, status |-> 200,
                             body |-> {EventResponse(e) : e \in filtered}]
    /\ UNCHANGED <<regVars, teamVars, loginVars, call, authVars, resVars>>

InitEvents == event_resp = NoEventResp

NextEvents ==
    \/ create_event
    \/ update_event
    \/ delete_event
    \/ get_event
    \/ get_events

InitReg ==
    /\ events = [e \in EventIds |-> [exists |-> FALSE, is_active |-> FALSE]]
    /\ registrations = {}
    /\ regReq = [r \in RegSlots |-> IdleReg]

NextReg ==
    \/ \E r \in RegSlots : create_registration_lookup(r)
    \/ \E r \in RegSlots : create_registration_insert(r)
    \/ \E r \in RegSlots : reg_response_sent(r)
    \/ create_event
    \/ update_event
    \/ delete_event

-----------------------------------------------------------------------------
(* Hackathon teams *)

InternalServerError == [status |-> 500, code |-> "INTERNAL_SERVER_ERROR"]

TeamEventNameInputs == { <<"h">>, <<"c">> }

TeamNameInputs == { <<"x">>, <<"<", "b", ">", "x">> }

MemberNameInput == <<"<", "i", ">", "m">>

TeamNameMaxLen == 100

MemberNameMaxLen == 100

\* a team_members list of the request body with the given is_leader flags
MembersWithLeaders(flags) ==
    [i \in 1..Len(flags) |-> [name |-> MemberNameInput, is_leader |-> flags[i]]]

\* team_members lists offered to create_hackathon_team: three members, four
\* with one leader (first or last), four with none, four with two, five
TeamMembersInputs ==
    { MembersWithLeaders(<<TRUE, FALSE, FALSE>>),
      MembersWithLeaders(<<TRUE, FALSE, FALSE, FALSE>>),
      MembersWithLeaders(<<FALSE, FALSE, FALSE, TRUE>>),
      MembersWithLeaders(<<FALSE, FALSE, FALSE, FALSE>>),
      MembersWithLeaders(<<TRUE, TRUE, FALSE, FALSE>>),
      MembersWithLeaders(<<TRUE, FALSE, FALSE, FALSE, FALSE>>) }

Leaders(v) == {i \in 1..Len(v) : v[i].is_leader}

\* the validator with the leader check relaxed to "at least one"
validate_team_members_some_leader(v) ==
    Len(v) = 4 /\ Cardinality(Leaders(v)) >= 1

\* HackathonTeamCreate.validate_team_members
validate_team_members(v) ==
    Len(v) = 4 /\ Cardinality(Leaders(v)) = 1

\* HackathonTeamCreate: field constraints (min_items=4, max_items=4) and the
\* team_members validator
HackathonTeamCreate_valid(event_name, team_name, members) ==
    /\ Len(event_name) >= 1
    /\ Len(event_name) <= 200
    /\ Len(team_name) >= 1
    /\ Len(team_name) <= 100
    /\ Len(members) >= 4
    /\ Len(members) <= 4
    /\ \A i \in 1..Len(members) :
           Len(members[i].name) >= 1 /\ Len(members[i].name) <= 100
    /\ validate_team_members(members)

TeamSlots == 1..MaxTeamConc

NoTeamId == <<>>

\* exc names the call whose exception "except Exception" caught, if any
IdleTeam ==
    [pc |-> "idle", event_name |-> <<>>, team_name |-> <<>>, members |-> <<>>,
     team_id |-> NoTeamId, exc |-> "", resp |-> NoResp]

\* the table without its unique constraint
unique_event_team_name_absent(rows, event_name, team_name) ==
    TRUE

\* UniqueConstraint('event_name', 'team_name'): no row of rows holds the pair
unique_event_team_name(rows, event_name, team_name) ==
    {row \in rows : row.event_name = event_name /\ row.team_name = team_name} = {}

\* the HackathonTeam row a request builds (lines 36-40)
TeamRowOf(q) ==
    [id |-> q.team_id, event_name |-> q.event_name,
     team_name |-> sanitize_string(q.team_name, TeamNameMaxLen)]

\* the TeamMember rows a request builds (lines 47-60)
MemberRowsOf(q) ==
    { [team_id |-> q.team_id, idx |-> i,
       name |-> sanitize_string(q.members[i].name, MemberNameMaxLen),
       is_leader |-> q.members[i].is_leader] : i \in 1..Len(q.members) }

\* team rows flushed by open transactions other than that of slot r
PendingTeamsOfOthers(r) ==
    { TeamRowOf(teamReq[o]) : o \in {o \in TeamSlots : o # r /\ teamReq[o].pc = "members"} }

\* HackathonTeam.id, default=uuid.uuid4: an identifier no row and no open
\* transaction holds, here the pair and the least rank not in use for that pair
NewTeamId(event_name, team_name) ==
    LET used == { t.id[3] : t \in
                    {t \in hackathon_teams : t.id[1] = event_name /\ t.id[2] = team_name} }
                \cup { teamReq[o].team_id[3] : o \in
                    {o \in TeamSlots : /\ teamReq[o].team_id # NoTeamId
                                       /\ teamReq[o].team_id[1] = event_name
                                       /\ teamReq[o].team_id[2] = team_name} }
        free == (1..(Cardinality(used) + 1)) \ used
    IN  <<event_name, team_name, CHOOSE x \in free : \A y \in free : x <= y>>

\* a flush that commits: the INSERT is at once visible to every session
db_flush_autocommit(table, pending) ==
    table \cup pending

\* db.flush(): the INSERT runs inside the open transaction; the rows other
\* sessions read are unchanged
db_flush(table, pending) ==
    table

\* db.commit(): the pending rows become the committed rows
db_commit(table, pending) ==
    table \cup pending

\* db.rollback(): the pending rows are discarded; the committed rows stay
db_rollback(table, pending) ==
    table

\* the request is parsed against HackathonTeamCreate (a body that fails is
\* answered by validation_exception_handler and the handler never runs);
\* then lines 33-44: sanitize the team name, db.add(team), db.flush().  The
\* INSERT waits for an open transaction holding the same pair; a committed
\* row of the pair raises IntegrityError: rollback, ConflictError.
create_hackathon_team_flush(r) ==
    /\ teamReq[r].pc = "idle"
    /\ \E en \in TeamEventNameInputs, tn \in TeamNameInputs, ms \in TeamMembersInputs :
          LET name == sanitize_string(tn, TeamNameMaxLen)
              q == [IdleTeam EXCEPT !.event_name = en, !.team_name = tn, !.members = ms]
              qf == [q EXCEPT !.team_id = NewTeamId(en, name)]
          IN  IF ~HackathonTeamCreate_valid(en, tn, ms)
              THEN /\ teamReq' = [teamReq EXCEPT ![r] =
                          [IdleTeam EXCEPT !.pc = "done", !.members = ms,
                                           !.resp = RequestValidationError]]
                   /\ UNCHANGED <<hackathon_teams, team_members>>
              ELSE /\ unique_event_team_name(PendingTeamsOfOthers(r), en, name)
                   /\ IF unique_event_team_name(hackathon_teams, en, name)
                      THEN /\ teamReq' = [teamReq EXCEPT ![r] = [qf EXCEPT !.pc = "members"]]
                           /\ hackathon_teams' = db_flush(hackathon_teams, {TeamRowOf(qf)})
                           /\ UNCHANGED team_members
                      ELSE /\ teamReq' = [teamReq EXCEPT ![r] =
                                  [IdleTeam EXCEPT !.pc = "done", !.event_name = en,
                                                   !.team_name = tn, !.resp = ConflictError]]
                           /\ hackathon_teams' = db_rollback(hackathon_teams, {})
                           /\ UNCHANGED team_members
    /\ UNCHANGED <<regVars, loginVars, moreVars>>

\* lines 46-77: db.add(member) for each member, db.commit(), db.refresh(team).
\* A failure of the store (a value a column rejects, a lost connection) is
\* caught by "except Exception": rollback, HTTPException(500).  It may come
\* from the inserts or the commit, and then nothing is committed, or from
\* the refresh, which runs after the commit.
create_hackathon_team_commit(r) ==
    /\ teamReq[r].pc = "members"
    /\ \E outcome \in {"ok", "db.commit", "db.refresh"} :
          LET q == teamReq[r]
              failed == [IdleTeam EXCEPT !.pc = "done", !.exc = outcome,
                                         !.resp = InternalServerError]
          IN  CASE outcome = "ok" ->
                   /\ hackathon_teams' = db_commit(hackathon_teams, {TeamRowOf(q)})
                   /\ team_members' = db_commit(team_members, MemberRowsOf(q))
                   /\ teamReq' = [teamReq EXCEPT ![r] =
                          [IdleTeam EXCEPT !.pc = "done", !.event_name = q.event_name,
                                           !.team_name = q.team_name, !.resp = Created]]
                [] outcome = "db.commit" ->
                   /\ hackathon_teams' = db_rollback(hackathon_teams, {TeamRowOf(q)})
                   /\ team_members' = db_rollback(team_members, MemberRowsOf(q))
                   /\ teamReq' = [teamReq EXCEPT ![r] = failed]
                [] outcome = "db.refresh" ->
                   /\ hackathon_teams' =
                          db_rollback(db_commit(hackathon_teams, {TeamRowOf(q)}), {})
                   /\ team_members' =
                          db_rollback(db_commit(team_members, MemberRowsOf(q)), {})
                   /\ teamReq' = [teamReq EXCEPT ![r] = failed]
    /\ UNCHANGED <<regVars, loginVars, moreVars>>

\* the response has been delivered; the slot takes the next request
team_response_sent(r) ==
    /\ teamReq[r].pc = "done"
    /\ teamReq' = [teamReq EXCEPT ![r] = IdleTeam]
    /\ UNCHANGED <<hackathon_teams, team_members, regVars, loginVars, moreVars>>

InitTeam ==
    /\ hackathon_teams = {}
    /\ team_members = {}
    /\ teamReq = [r \in TeamSlots |-> IdleTeam]

NextTeam ==
    \/ \E r \in TeamSlots : create_hackathon_team_flush(r)
    \/ \E r \in TeamSlots : create_hackathon_team_commit(r)
    \/ \E r \in TeamSlots : team_response_sent(r)

-----------------------------------------------------------------------------
(* Login and its rate limit *)

\* @limiter.limit("5/15minutes"): 5 hits
LimitAmount == 5

\* @limiter.limit("5/15minutes"): per 15 minutes
WindowMinutes == 15

\* what slowapi's _rate_limit_exceeded_handler answers: status 429 and the
\* body {"error": "Rate limit exceeded: ..."}, which carries no error code
RateLimitExceeded == [status |-> 429, code |-> ""]

\* HTTPException(401) through http_exception_handler
Unauthorized == [status |-> 401, code |-> "UNAUTHORIZED"]

\* HTTPException(403) through http_exception_handler
Forbidden == [status |-> 403, code |-> "FORBIDDEN"]

\* Token(...) with status 200
TokenResponse == [status |-> 200, code |-> ""]

\* client addresses, get_remote_address(request)
Addrs == {"10.0.0.1", "10.0.0.2"}

UsernameInputs == { <<"a", "d", "m", "i", "n">>, <<"e", "v", "e">> }

PasswordInputs ==
    { <<"a", "d", "m", "i", "n", "1", "2", "3">>,
      <<"l", "e", "t", "m", "e", "i", "n">>,
      <<"a", "b", "c">> }

\* seed_db.py: ADMIN_USERNAME, ADMIN_PASSWORD defaults
AdminUsername == <<"a", "d", "m", "i", "n">>

AdminPassword == <<"a", "d", "m", "i", "n", "1", "2", "3">>

\* hash_password: an Argon2 hash, which verifies against its password only
hash_password(password) == [scheme |-> "argon2", of |-> password]

\* verify_password: ph.verify raises VerifyMismatchError on a mismatch, which
\* is turned into False; a stored value that is no Argon2 hash makes it raise
\* another exception, which is not caught
verify_password(plain_password, hashed_password) ==
    IF hashed_password \notin [scheme : {"argon2"}, of : PasswordInputs]
    THEN "raise"
    ELSE IF hashed_password.of = plain_password THEN "True" ELSE "False"

\* LoginRequest: username 3..50 characters, password at least 6
LoginRequest_valid(username, password) ==
    /\ Len(username) >= 3
    /\ Len(username) <= 50
    /\ Len(password) >= 6

NoUser == [exists |-> FALSE, password_hash |-> "", is_active |-> FALSE, last_login |-> 0]

\* a login request in flight. seen: the counter value read by the hit;
\* verified: the credential verifier (user lookup, verify_password) has run
Queued(addr) ==
    [pc |-> "queued", addr |-> addr, seen |-> 0, verified |-> FALSE, resp |-> NoResp]

\* a request whose response is built
Done(addr, verified, resp) ==
    [pc |-> "done", addr |-> addr, seen |-> 0, verified |-> verified, resp |-> resp]

\* the bag of requests with q replaced by q2
Becomes(q, q2) == (loginReq (-) SetToBag({q})) (+) SetToBag({q2})

Ages == 0..(WindowMinutes - 1)

RECURSIVE SumUpTo(_, _)
SumUpTo(f, n) == IF n < 0 THEN 0 ELSE f[n] + SumUpTo(f, n - 1)

\* the client whose admitted attempts are recorded with their age
Observed == "10.0.0.1"

\* attempts of Observed admitted less than WindowMinutes ago
AdmittedInLastWindow == SumUpTo(admitted_log, WindowMinutes - 1)

\* a key function that takes every client for the same
limit_key_shared(addr) == "10.0.0.1"

\* Limiter(key_func=get_remote_address): the counter's key is the address
limit_key(addr) == addr

\* Limiter(key_func=get_remote_address): no strategy given, so slowapi's
\* default "fixed-window", whose hit calls incr(..., elastic_expiry=False)
elastic_expiry == FALSE

\* MemoryStorage.get: expirations.get(key, 0) <= time.time()
KeyExpired(a) == expirations[a] <= 0

\* a handler that gives the loop up after each step, as one declared "def"
\* and run on the thread pool would
loop_after_step_threaded == "free"

\* "async def login" has no await between the limit check and its return:
\* once it runs, the request keeps the event loop until its response is built
loop_after_step == "busy"

\* FixedWindowRateLimiter.hit: storage.incr(...) <= item.amount
within_limit(count) == count <= LimitAmount

\* the requests in flight whose hit on the counter of key k is still to be
\* written
InFlight(k) ==
    BagCardinality([q \in {x \in BagToSet(loginReq) :
                               x.pc \in {"queued", "incr"} /\ limit_key(x.addr) = k}
                       |-> loginReq[q]])

\* the request is parsed against LoginRequest (a body that fails is answered
\* by validation_exception_handler before the limiter is reached) and waits
\* for the event loop; nothing looks at the credentials of a valid body before
\* login's body, where their values are drawn
login_receive ==
    /\ BagCardinality(loginReq) < MaxLoginConc
    /\ \E a \in Addrs, u \in UsernameInputs, p \in PasswordInputs :
          /\ storage[limit_key(a)] + InFlight(limit_key(a)) < MaxHits
          /\ IF LoginRequest_valid(u, p)
             THEN loginReq' = loginReq (+) SetToBag({Queued(a)})
             ELSE loginReq' = loginReq (+) SetToBag({Done(a, FALSE, RequestValidationError)})
    /\ UNCHANGED <<users, storage, expirations, event_loop, admitted_log, window_admitted>>
    /\ UNCHANGED <<regVars, teamVars, moreVars>>

\* the limiter's hit, first half (MemoryStorage.incr): self.get(key) drops an
\* expired counter, then the counter is read
login_limit_read(q) ==
    /\ q.pc = "queued"
    /\ event_loop = "free"
    /\ LET a == limit_key(q.addr)
           count == IF KeyExpired(a) THEN 0 ELSE storage[a]
       IN  /\ storage' = [storage EXCEPT ![a] = count]
           /\ expirations' = [expirations EXCEPT ![a] = IF KeyExpired(a) THEN 0 ELSE @]
           /\ window_admitted' = [window_admitted EXCEPT ![a] =
                                     IF KeyExpired(a) THEN 0 ELSE @]
           /\ loginReq' = Becomes(q, [q EXCEPT !.pc = "incr", !.seen = count])
    /\ event_loop' = loop_after_step
    /\ UNCHANGED <<users, admitted_log>>
    /\ UNCHANGED <<regVars, teamVars, moreVars>>

\* last_login set as soon as the password has been verified
login_body_stamps_first(username, password) ==
    LET user == IF username \in DOMAIN users /\ users[username].exists
                THEN users[username] ELSE NoUser
        stamped == [users EXCEPT ![username].last_login = 1]
    IN  IF ~user.exists \/ verify_password(password, user.password_hash) = "False"
        THEN [resp |-> Unauthorized, users |-> users]
        ELSE IF verify_password(password, user.password_hash) = "raise"
        THEN [resp |-> InternalServerError, users |-> users]
        ELSE IF ~user.is_active
        THEN [resp |-> Forbidden, users |-> stamped]
        ELSE [resp |-> TokenResponse, users |-> stamped]

\* login, lines 35-61, for the credentials of the request: find the user,
\* verify the password (401), check is_active (403), update last_login,
\* commit, answer the token
login_body(username, password) ==
    LET user == IF username \in DOMAIN users /\ users[username].exists
                THEN users[username] ELSE NoUser
    IN  IF ~user.exists \/ verify_password(password, user.password_hash) = "False"
        THEN [resp |-> Unauthorized, users |-> users]
        ELSE IF verify_password(password, user.password_hash) = "raise"
        THEN [resp |-> InternalServerError, users |-> users]
        ELSE IF ~user.is_active
        THEN [resp |-> Forbidden, users |-> users]
        ELSE [resp |-> TokenResponse,
              users |-> [users EXCEPT ![username].last_login = 1]]

\* the limiter's hit, second half, and the handler: the counter is written,
\* its expiry is set when the hit is the first (or always, were the expiry
\* elastic); when the new count is within the limit the request is admitted
\* and login's body runs, otherwise RateLimitExceeded is raised and it does not
login(q) ==
    /\ q.pc = "incr"
    /\ LET a == limit_key(q.addr)
           count == q.seen + 1
       IN  /\ storage' = [storage EXCEPT ![a] = count]
           /\ expirations' = [expirations EXCEPT ![a] =
                                 IF elastic_expiry \/ count = 1 THEN WindowMinutes ELSE @]
           /\ IF within_limit(count)
              THEN /\ admitted_log' = IF q.addr = Observed
                                      THEN [admitted_log EXCEPT ![0] = @ + 1]
                                      ELSE admitted_log
                   /\ window_admitted' = [window_admitted EXCEPT ![a] = @ + 1]
                   /\ \E username \in UsernameInputs, password \in PasswordInputs :
                         /\ LoginRequest_valid(username, password)
                         /\ users' = login_body(username, password).users
                         /\ loginReq' =
                                Becomes(q, Done(q.addr, TRUE, login_body(username, password).resp))
              ELSE /\ loginReq' = Becomes(q, Done(q.addr, FALSE, RateLimitExceeded))
                   /\ UNCHANGED <<users, admitted_log, window_admitted>>
    /\ event_loop' = "free"
    /\ UNCHANGED <<regVars, teamVars, moreVars>>

\* the response has been delivered
login_response_sent(q) ==
    /\ q.pc = "done"
    /\ loginReq' = loginReq (-) SetToBag({q})
    /\ UNCHANGED <<users, storage, expirations, event_loop, admitted_log, window_admitted>>
    /\ UNCHANGED <<regVars, teamVars, moreVars>>

\* time.time() advances by TickMinutes, though not between the two halves of a
\* hit, which read the clock microseconds apart; a counter whose expiry is
\* reached is dropped here, as the get of the next hit would drop it before
\* reading it
Tick ==
    /\ \A q \in BagToSet(loginReq) : q.pc # "incr"
    /\ expirations' = [a \in Addrs |->
                          IF expirations[a] <= TickMinutes THEN 0
                          ELSE expirations[a] - TickMinutes]
    /\ storage' = [a \in Addrs |-> IF expirations'[a] <= 0 THEN 0 ELSE storage[a]]
    /\ window_admitted' = [a \in Addrs |->
                              IF expirations'[a] <= 0 THEN 0 ELSE window_admitted[a]]
    /\ admitted_log' = [g \in Ages |->
                          IF g >= TickMinutes THEN admitted_log[g - TickMinutes] ELSE 0]
    /\ UNCHANGED <<users, event_loop, loginReq>>
    /\ UNCHANGED <<regVars, teamVars, moreVars>>

\* the seeded admin; the limiter's storage is empty
InitLogin ==
    /\ users = [u \in {AdminUsername} |->
                   [exists |-> TRUE, password_hash |-> hash_password(AdminPassword),
                    is_active |-> TRUE, last_login |-> 0]]
    /\ storage = [a \in Addrs |-> 0]
    /\ expirations = [a \in Addrs |-> 0]
    /\ event_loop = "free"
    /\ loginReq = EmptyBag
    /\ admitted_log = [g \in Ages |-> 0]
    /\ window_admitted = [a \in Addrs |-> 0]

NextLogin ==
    \/ login_receive
    \/ \E q \in BagToSet(loginReq) : login_limit_read(q)
    \/ \E q \in BagToSet(loginReq) : login(q)
    \/ \E q \in BagToSet(loginReq) : login_response_sent(q)
    \/ Tick

-----------------------------------------------------------------------------
(* security.py: password verification and access tokens *)

\* seconds by which the clock of the tokens advances in one step
AuthTickSeconds == 1800

\* the last second of the clock of the tokens
MaxAuthClock == 7200

\* settings.jwt_expiration_seconds
jwt_expiration_seconds == 3600

\* settings.jwt_secret_key, read from the environment
jwt_secret_key == "server-secret"

\* a key that is not the server's
OtherKey == "other-key"

\* settings.jwt_algorithm
jwt_algorithm == "HS256"

\* the values of datetime.utcnow()
Times == {t \in 0..MaxAuthClock : t % AuthTickSeconds = 0}

\* Optional[...] values: None is <<>>, a value v is <<v>>
None == <<>>

\* expires_delta: None, or a timedelta in seconds
ExpiresDeltaInputs == {None, <<0>>, <<AuthTickSeconds>>, <<0 - AuthTickSeconds>>}

\* the signature of jose's jws.sign: it is that of another token only when the
\* key, the algorithm and the claims are the same
HMAC(key, algorithm, claims) == [key |-> key, alg |-> algorithm, claims |-> claims]

\* jwt.encode: header.payload.signature
jwt_encode(claims, key, algorithm) ==
    [parts |-> 3, alg |-> algorithm, claims |-> claims,
     sig |-> HMAC(key, algorithm, claims)]

\* create_access_token, lines 35-38: "if expires_delta:" is false for None
\* and for timedelta(0)
token_expire(expires_delta, utcnow) ==
    IF expires_delta # None /\ expires_delta[1] # 0
    THEN utcnow + expires_delta[1]
    ELSE utcnow + jwt_expiration_seconds

\* create_access_token(data={"sub": sub}, expires_delta) at time utcnow
create_access_token(sub, expires_delta, utcnow) ==
    jwt_encode([sub |-> sub, exp |-> token_expire(expires_delta, utcnow), iat |-> utcnow],
               jwt_secret_key, jwt_algorithm)

\* a decoder that does not look at the expiry
jwt_expired_never(claims, utcnow) == FALSE

\* jose's _validate_exp: exp < now raises ExpiredSignatureError
jwt_expired(claims, utcnow) == claims.exp < utcnow

\* jwt.decode(token, key, algorithms) raises JWTError for a token that has not
\* three parts, names another algorithm, carries a signature that is not the
\* key's over its claims, or has expired
jwt_decode_raises(token, key, algorithms, utcnow) ==
    \/ token.parts # 3
    \/ token.alg \notin algorithms
    \/ token.sig # HMAC(key, token.alg, token.claims)
    \/ jwt_expired(token.claims, utcnow)

\* decode_access_token: the payload, or None on JWTError
decode_access_token(token, utcnow) ==
    IF jwt_decode_raises(token, jwt_secret_key, {jwt_algorithm}, utcnow)
    THEN None
    ELSE <<token.claims>>

\* what a client may present in the place of a token it was given
Presentations == {"as issued", "other sub", "later exp", "signed with other key",
                  "alg none", "truncated"}

Presented(token, how) ==
    CASE how = "as issued" -> token
      [] how = "other sub" ->
            [token EXCEPT !.claims.sub = IF @ = AdminUsername
                                         THEN <<"e", "v", "e">> ELSE AdminUsername]
      [] how = "later exp" -> [token EXCEPT !.claims.exp = @ + jwt_expiration_seconds]
      [] how = "signed with other key" ->
            [token EXCEPT !.claims.exp = @ + jwt_expiration_seconds,
                          !.sig = HMAC(OtherKey, token.alg,
                                       [token.claims EXCEPT
                                           !.exp = @ + jwt_expiration_seconds])]
      [] how = "alg none" ->
            [token EXCEPT !.alg = "none", !.sig = HMAC("", "none", token.claims)]
      [] how = "truncated" -> [token EXCEPT !.parts = 2]

\* stored values that are no Argon2 hash: the plaintext, a hash of another scheme
MalformedHashes == [scheme : {"plaintext", "bcrypt"}, of : PasswordInputs]

\* no call
NoCall == [fn |-> "", pc |-> "returned"]

\* the calls of verify_password
VerifyPasswordCalls ==
    [fn : {"verify_password"}, pc : {"called"}, plain_password : PasswordInputs,
     hashed_password : {hash_password(p) : p \in PasswordInputs} \cup MalformedHashes]

\* the calls that issue a token at time iat, let the client present it in
\* some way and decode what is presented at time at
TokenCalls ==
    {c \in [fn : {"token"}, pc : {"called"}, sub : UsernameInputs,
            expires_delta : ExpiresDeltaInputs, iat : Times, how : Presentations,
            at : Times] : c.at >= c.iat}

\* verify_password is called and returns or raises
verify_password_call ==
    /\ call.fn = "verify_password"
    /\ call.pc = "called"
    /\ call' = [fn |-> "verify_password", pc |-> "returned",
                plain_password |-> call.plain_password,
                hashed_password |-> call.hashed_password,
                out |-> verify_password(call.plain_password, call.hashed_password)]
    /\ UNCHANGED <<regVars, teamVars, loginVars, authVars, resVars, event_resp>>

\* create_access_token, then decode_access_token of what the client presents
token_call ==
    /\ call.fn = "token"
    /\ call.pc = "called"
    /\ LET issued == create_access_token(call.sub, call.expires_delta, call.iat)
           presented == Presented(issued, call.how)
       IN  call' = [fn |-> "token", pc |-> "returned", sub |-> call.sub,
                    expires_delta |-> call.expires_delta, iat |-> call.iat,
                    how |-> call.how, at |-> call.at, presented |-> presented,
                    out |-> decode_access_token(presented, call.at)]
    /\ UNCHANGED <<regVars, teamVars, loginVars, authVars, resVars, event_resp>>

-----------------------------------------------------------------------------
(* Exception handlers: main.py and utils/errors.py *)

\* HTTPException(status_code, detail)
HTTPException(status_code, detail) ==
    [class |-> "HTTPException", status_code |-> status_code, detail |-> detail]

\* AppException and its subclasses, as utils/errors.py constructs them
AppException(class, status_code, error_code, message) ==
    [class |-> class, status_code |-> status_code, error_code |-> error_code,
     detail |-> message, details |-> <<>>]

AppExceptions ==
    { AppException("UnauthorizedError", 401, "UNAUTHORIZED",
                   "Invalid authentication credentials"),
      AppException("ForbiddenError", 403, "FORBIDDEN", "Insufficient permissions"),
      AppException("NotFoundError", 404, "NOT_FOUND", "Resource not found"),
      AppException("ValidationError", 422, "VALIDATION_ERROR", "Validation error"),
      AppException("ConflictError", 409, "CONFLICT", "Resource conflict"),
      AppException("RateLimitError", 429, "TOO_MANY_REQUESTS", "Rate limit exceeded") }

\* the statuses of the plain HTTPExceptions: raised by the routes (400, 401,
\* 403, 404, 500), by save_pdf_file (413) and by the router itself (404, 405)
HTTPExceptionStatuses == {400, 401, 403, 404, 405, 413, 500}

HTTPExceptions ==
    {HTTPException(s, d) : s \in HTTPExceptionStatuses, d \in {"", "detail"}}

\* what else reaches the application's handlers
OtherExceptions ==
    { [class |-> "RequestValidationError", errors |-> <<"field required">>],
      [class |-> "RateLimitExceeded", detail |-> "5 per 15 minute"],
      [class |-> "Exception", detail |-> "commit failed"] }

Exceptions == AppExceptions \cup HTTPExceptions \cup OtherExceptions

create_error_response(status_code, error_code, message, details) ==
    [error |-> [code |-> error_code, message |-> message, details |-> details]]

app_exception_handler(exc) ==
    [status_code |-> exc.status_code,
     content |-> create_error_response(exc.status_code, exc.error_code, exc.detail,
                                       exc.details)]

error_code_map ==
    (401 :> "UNAUTHORIZED") @@ (403 :> "FORBIDDEN") @@ (404 :> "NOT_FOUND") @@
    (409 :> "CONFLICT") @@ (413 :> "PAYLOAD_TOO_LARGE") @@
    (429 :> "TOO_MANY_REQUESTS") @@ (500 :> "INTERNAL_SERVER_ERROR")

http_exception_handler(exc) ==
    LET error_code == IF exc.status_code \in DOMAIN error_code_map
                      THEN error_code_map[exc.status_code]
                      ELSE "HTTP_ERROR"
    IN  [status_code |-> exc.status_code,
         content |-> create_error_response(
                         exc.status_code, error_code,
                         IF exc.detail = "" THEN "An error occurred" ELSE exc.detail,
                         <<>>)]

validation_exception_handler(exc) ==
    [status_code |-> 422,
     content |-> create_error_response(422, "VALIDATION_ERROR", "Validation error",
                                       [fields |-> exc.errors])]

\* slowapi's _rate_limit_exceeded_handler: {"error": "Rate limit exceeded: ..."}
rate_limit_exceeded_handler(exc) ==
    [status_code |-> 429,
     content |-> [error |-> [str |-> <<"Rate limit exceeded: ", exc.detail>>]]]

\* no handler is registered for Exception: Starlette's ServerErrorMiddleware
\* answers with the plain text "Internal Server Error"
ServerErrorMiddleware(exc) ==
    [status_code |-> 500, content |-> [text |-> "Internal Server Error"]]

\* the handler that the class of the exception selects
exception_handler(exc) ==
    CASE exc.class \in {e.class : e \in AppExceptions} -> app_exception_handler(exc)
      [] exc.class = "HTTPException" -> http_exception_handler(exc)
      [] exc.class = "RequestValidationError" -> validation_exception_handler(exc)
      [] exc.class = "RateLimitExceeded" -> rate_limit_exceeded_handler(exc)
      [] OTHER -> ServerErrorMiddleware(exc)

\* the body has the shape {error: {code, message, details}}
HasEnvelope(content) ==
    /\ DOMAIN content = {"error"}
    /\ DOMAIN content.error = {"code", "message", "details"}

\* the calls that raise an exception in a route
RespondCalls == [fn : {"respond"}, pc : {"called"}, exc : Exceptions]

\* an exception raised in a route is turned into the response
respond_call ==
    /\ call.fn = "respond"
    /\ call.pc = "called"
    /\ call' = [fn |-> "respond", pc |-> "returned", exc |-> call.exc,
                out |-> exception_handler(call.exc)]
    /\ UNCHANGED <<regVars, teamVars, loginVars, authVars, resVars, event_resp>>

-----------------------------------------------------------------------------
(* Authentication routes: login's tokens, GET /api/auth/me, deactivation *)

\* no response yet
NoAuthResp ==
    [op |-> "", status |-> 0, code |-> "", username |-> <<>>, presented |-> None,
     how |-> ""]

\* the dependency that lets a request through whatever the principal's state
get_current_user_any_state(token, utcnow) ==
    LET payload == decode_access_token(token, utcnow)
    IN  IF payload = None
        THEN [resp |-> Unauthorized, username |-> <<>>]
        ELSE IF payload[1].sub \notin DOMAIN users \/ ~users[payload[1].sub].exists
        THEN [resp |-> Unauthorized, username |-> <<>>]
        ELSE [resp |-> [status |-> 200, code |-> ""], username |-> payload[1].sub]

\* app.dependencies.get_current_user, the dependency of every admin-only route:
\* the token is verified, its subject is looked up again, and a principal that
\* is missing or no longer active is rejected
get_current_user(token, utcnow) ==
    LET payload == decode_access_token(token, utcnow)
    IN  IF payload = None
        THEN [resp |-> Unauthorized, username |-> <<>>]
        ELSE IF payload[1].sub \notin DOMAIN users \/ ~users[payload[1].sub].exists
        THEN [resp |-> Unauthorized, username |-> <<>>]
        ELSE IF ~users[payload[1].sub].is_active
        THEN [resp |-> Forbidden, username |-> <<>>]
        ELSE [resp |-> [status |-> 200, code |-> ""], username |-> payload[1].sub]

\* login's body for a request the limiter has admitted (its hit on the limiter
\* is login_limit_read and login): the credentials are checked and, when they
\* are those of an active principal, last_login is set and a token is issued
\* with create_access_token(data={"sub": user.username})
login_issue ==
    \E username \in UsernameInputs, password \in PasswordInputs :
        /\ LoginRequest_valid(username, password)
        /\ LET r == login_body(username, password)
               token == create_access_token(username, None, auth_now)
               issued == r.resp = TokenResponse
           IN  /\ users' = r.users
               /\ tokens' = IF issued THEN tokens \cup {token} ELSE tokens
               /\ auth_resp' = [op |-> "login", status |-> r.resp.status,
                                code |-> r.resp.code, username |-> username,
                                presented |-> IF issued THEN <<token>> ELSE None,
                                how |-> IF username \in DOMAIN users
                                           /\ users[username].exists
                                           /\ verify_password(password,
                                                  users[username].password_hash) = "True"
                                        THEN "correct" ELSE "incorrect"]
        /\ UNCHANGED auth_now
        /\ UNCHANGED <<storage, expirations, event_loop, loginReq, admitted_log,
                       window_admitted>>
        /\ UNCHANGED <<regVars, teamVars, call, resVars, event_resp>>

\* GET /api/auth/me: a client presents a token it was given, as issued or
\* altered; get_current_user decides, and the user is echoed
get_current_user_info ==
    \E token \in tokens, how \in Presentations :
        /\ LET presented == Presented(token, how)
               r == get_current_user(presented, auth_now)
           IN  auth_resp' = [op |-> "me", status |-> r.resp.status, code |-> r.resp.code,
                             username |-> r.username, presented |-> <<presented>>,
                             how |-> how]
        /\ UNCHANGED <<users, auth_now, tokens>>
        /\ UNCHANGED <<storage, expirations, event_loop, loginReq, admitted_log,
                       window_admitted>>
        /\ UNCHANGED <<regVars, teamVars, call, resVars, event_resp>>

\* a principal is deactivated: is_active is set to false
deactivate ==
    \E username \in DOMAIN users :
        /\ users[username].is_active
        /\ users' = [users EXCEPT ![username].is_active = FALSE]
        /\ UNCHANGED <<auth_now, tokens, auth_resp>>
        /\ UNCHANGED <<storage, expirations, event_loop, loginReq, admitted_log,
                       window_admitted>>
        /\ UNCHANGED <<regVars, teamVars, call, resVars, event_resp>>

\* datetime.utcnow() advances by AuthTickSeconds
AuthTick ==
    /\ auth_now + AuthTickSeconds <= MaxAuthClock
    /\ auth_now' = auth_now + AuthTickSeconds
    /\ UNCHANGED <<users, tokens, auth_resp>>
    /\ UNCHANGED <<storage, expirations, event_loop, loginReq, admitted_log,
                   window_admitted>>
    /\ UNCHANGED <<regVars, teamVars, call, resVars, event_resp>>

InitAuth ==
    /\ auth_now = 0
    /\ tokens = {}
    /\ auth_resp = NoAuthResp

NextAuth ==
    \/ login_issue
    \/ get_current_user_info
    \/ deactivate
    \/ AuthTick

-----------------------------------------------------------------------------
(* Resources: api/resources.py and services/file_service.py *)

max_file_size_mb == 10

max_file_size_bytes == max_file_size_mb * 1024 * 1024

ResourceTitleMaxLen == 200

\* bound: the results of uuid.uuid4() that the requests draw
MaxUuid == 3

\* str.lower(), on the letters of the file names used
lower(s) ==
    [i \in 1..Len(s) |->
        CASE s[i] = "P" -> "p" [] s[i] = "D" -> "d" [] s[i] = "F" -> "f"
          [] OTHER -> s[i]]

\* str.endswith()
endswith(s, suffix) ==
    /\ Len(s) >= Len(suffix)
    /\ SubSeq(s, Len(s) - Len(suffix) + 1, Len(s)) = suffix

PDFSignature == <<"%", "P", "D", "F">>

FilenameInputs ==
    { <<"e", "v", "i", "l", ".", "p", "d", "f">>,
      <<"R", ".", "P", "D", "F">>,
      <<"n", ".", "t", "x", "t">> }

ContentTypeInputs == {"application/pdf", "text/html"}

\* the bytes of an upload: their number and the first four of them
ContentInputs ==
    { [len |-> 0, head |-> <<>>], [len |-> 3, head |-> <<"%", "P", "D">>] } \cup
    [len : {4, max_file_size_bytes, max_file_size_bytes + 1},
     head : {PDFSignature, <<"<", "h", "t", "m">>}]

\* what "import magic" and mime.from_buffer(file_content) do in this
\* deployment on these bytes: the import fails (or the call raises), or
\* libmagic names a type
MagicInputs == {"ImportError", "application/pdf", "text/plain"}

UploadFiles ==
    [filename : FilenameInputs, content_type : ContentTypeInputs,
     content : ContentInputs, magic : MagicInputs]

\* the uploads sent to the routes: four bytes, with or without the signature,
\* or a PDF over the maximum size, under each file name, where python-magic
\* is not installed
RouteUploads ==
    {f \in UploadFiles : /\ f.content_type = "application/pdf"
                         /\ \/ f.content.len = 4
                            \/ /\ f.content.len > max_file_size_bytes
                               /\ f.content.head = PDFSignature
                         /\ f.magic = "ImportError"}

TitleInputs == { <<"a">>, <<" ", "b">> }

validate_pdf_file(file) ==
    IF file.filename = <<>> \/ ~endswith(lower(file.filename), <<".", "p", "d", "f">>)
    THEN [is_valid |-> FALSE,
          error_msg |-> "File must be a PDF (.pdf extension required)"]
    ELSE IF file.content_type # "application/pdf"
    THEN [is_valid |-> FALSE, error_msg |-> "File must be of type application/pdf"]
    ELSE [is_valid |-> TRUE, error_msg |-> ""]

validate_pdf_magic_bytes(file_content, magic) ==
    IF file_content.len < 4
    THEN FALSE
    ELSE IF SubSeq(file_content.head, 1, 4) # PDFSignature
    THEN FALSE
    ELSE IF magic = "ImportError" THEN TRUE ELSE magic = "application/pdf"

\* save_pdf_file up to the write: the exception it raises, or None
save_pdf_file_magic_first(file) ==
    IF ~validate_pdf_magic_bytes(file.content, file.magic)
    THEN <<HTTPException(400, "File is not a valid PDF")>>
    ELSE IF file.content.len > max_file_size_bytes
    THEN <<HTTPException(413, "File size exceeds maximum allowed size of 10MB")>>
    ELSE None

save_pdf_file_raises(file) ==
    IF file.content.len > max_file_size_bytes
    THEN <<HTTPException(413, "File size exceeds maximum allowed size of 10MB")>>
    ELSE IF ~validate_pdf_magic_bytes(file.content, file.magic)
    THEN <<HTTPException(400, "File is not a valid PDF")>>
    ELSE None

\* what a route raises for an upload before anything is written:
\* validate_pdf_file, then save_pdf_file up to the write
upload_raises(file) ==
    IF ~validate_pdf_file(file).is_valid
    THEN <<HTTPException(400, validate_pdf_file(file).error_msg)>>
    ELSE save_pdf_file_raises(file)

\* the uploads checked on their own
UploadCalls == [fn : {"upload"}, pc : {"called"}, file : UploadFiles]

\* an upload goes through the checks of create_resource
upload_call ==
    /\ call.fn = "upload"
    /\ call.pc = "called"
    /\ call' = [fn |-> "upload", pc |-> "returned", file |-> call.file,
                out |-> upload_raises(call.file)]
    /\ UNCHANGED <<regVars, teamVars, loginVars, authVars, resVars, event_resp>>

\* the response that an exception raised in a resource route becomes
Raised(exc) ==
    LET r == exception_handler(exc)
    IN  [status |-> r.status_code,
         code |-> IF HasEnvelope(r.content) THEN r.content.error.code ELSE "",
         message |-> IF HasEnvelope(r.content) THEN r.content.error.message ELSE ""]

Returned(status_code) == [status |-> status_code, code |-> "", message |-> ""]

ResourceNotFound ==
    AppException("NotFoundError", 404, "NOT_FOUND", "Resource not found")

\* db.commit() raised
CommitFailed == [class |-> "Exception", detail |-> "commit failed"]

\* no request is being served
NoResReq ==
    [op |-> "", pc |-> "done", id |-> 0, file |-> None, title |-> None,
     file_url |-> 0, old_file_path |-> 0, resp |-> Returned(0)]

\* db.query(Resource).filter(Resource.id == resource_id).first()
ResourceOf(resource_id) == {r \in resources : r.id = resource_id}

\* the ids a request names: those of the rows, and one of no row
ResourceIdInputs == {r.id : r \in resources} \cup {0}

\* POST /resources up to db.commit(): validate_pdf_file, save_pdf_file.
\* Resource.id is a uuid4 as well; the model takes for it the uuid drawn for
\* the row's first file, which is as fresh.
create_resource ==
    /\ resReq.pc = "done"
    /\ \E title \in TitleInputs, file \in RouteUploads :
        LET e == upload_raises(file)
            req == [op |-> "create_resource", pc |-> "commit", id |-> 0,
                    file |-> file,
                    title |-> sanitize_string(title, ResourceTitleMaxLen),
                    file_url |-> 0, old_file_path |-> 0, resp |-> Returned(0)]
        IN  IF e # None
            THEN /\ resReq' = [req EXCEPT !.pc = "done", !.resp = Raised(e[1])]
                 /\ UNCHANGED <<resources, upload_root, uuid4>>
            ELSE /\ uuid4 < MaxUuid
                 /\ uuid4' = uuid4 + 1
                 /\ upload_root' = upload_root \cup {uuid4'}
                 /\ resReq' = [req EXCEPT !.id = uuid4', !.file_url = uuid4']
                 /\ UNCHANGED resources
    /\ UNCHANGED <<regVars, teamVars, loginVars, call, authVars, event_resp>>

\* POST /resources: db.add(resource), db.commit(), which may raise
create_resource_commit ==
    /\ resReq.op = "create_resource"
    /\ resReq.pc = "commit"
    /\ \E committed \in BOOLEAN :
        IF committed
        THEN /\ resources' = resources \cup
                    {[id |-> resReq.id, title |-> resReq.title,
                      file_url |-> resReq.file_url,
                      file_size |-> resReq.file.content.len]}
             /\ resReq' = [resReq EXCEPT !.pc = "done", !.resp = Returned(201)]
        ELSE /\ resReq' = [resReq EXCEPT !.pc = "done", !.resp = Raised(CommitFailed)]
             /\ UNCHANGED resources
    /\ UNCHANGED <<upload_root, uuid4>>
    /\ UNCHANGED <<regVars, teamVars, loginVars, call, authVars, event_resp>>

\* PUT /resources/{id} up to save_pdf_file: the lookup, the title,
\* validate_pdf_file and the deletion of the old file
update_resource ==
    /\ resReq.pc = "done"
    /\ \E resource_id \in ResourceIdInputs, title \in {None} \cup TitleInputs,
          file \in {None} \cup RouteUploads :
        LET req == [op |-> "update_resource", pc |-> "commit", id |-> resource_id,
                    file |-> file, title |-> None, file_url |-> 0,
                    old_file_path |-> 0, resp |-> Returned(0)]
        IN  IF ResourceOf(resource_id) = {}
            THEN /\ resReq' = [req EXCEPT !.pc = "done",
                                          !.resp = Raised(ResourceNotFound)]
                 /\ UNCHANGED <<resources, upload_root, uuid4>>
            ELSE LET resource == CHOOSE r \in ResourceOf(resource_id) : TRUE
                     new_title == IF title # None
                                  THEN sanitize_string(title, ResourceTitleMaxLen)
                                  ELSE resource.title
                 IN  IF file = None
                     THEN /\ resReq' = [req EXCEPT !.title = new_title,
                                                   !.file_url = resource.file_url]
                          /\ UNCHANGED <<resources, upload_root, uuid4>>
                     ELSE IF ~validate_pdf_file(file).is_valid
                     THEN /\ resReq' =
                                [req EXCEPT
                                    !.pc = "done",
                                    !.resp = Raised(HTTPException(
                                                 400, validate_pdf_file(file).error_msg))]
                          /\ UNCHANGED <<resources, upload_root, uuid4>>
                     ELSE /\ uuid4 < MaxUuid
                          /\ upload_root' = upload_root \ {resource.file_url}
                          /\ resReq' =
                                [req EXCEPT
                                    !.pc = "save", !.title = new_title,
                                    !.old_file_path =
                                        IF resource.file_url \in upload_root
                                        THEN resource.file_url ELSE 0]
                          /\ UNCHANGED <<resources, uuid4>>
    /\ UNCHANGED <<regVars, teamVars, loginVars, call, authVars, event_resp>>

\* PUT /resources/{id}: save_pdf_file(file) of the new file
update_resource_save ==
    /\ resReq.op = "update_resource"
    /\ resReq.pc = "save"
    /\ LET e == save_pdf_file_raises(resReq.file)
       IN  IF e # None
           THEN /\ resReq' = [resReq EXCEPT !.pc = "done", !.title = None,
                                            !.old_file_path = 0,
                                            !.resp = Raised(e[1])]
                /\ UNCHANGED <<resources, upload_root, uuid4>>
           ELSE /\ uuid4' = uuid4 + 1
                /\ upload_root' = upload_root \cup {uuid4'}
                /\ resReq' = [resReq EXCEPT !.pc = "commit", !.file_url = uuid4']
                /\ UNCHANGED resources
    /\ UNCHANGED <<regVars, teamVars, loginVars, call, authVars, event_resp>>

\* PUT /resources/{id}: db.commit(), which may raise
update_resource_commit ==
    /\ resReq.op = "update_resource"
    /\ resReq.pc = "commit"
    /\ \E committed \in BOOLEAN :
        IF committed
        THEN /\ resources' =
                    {IF r.id # resReq.id THEN r
                     ELSE [r EXCEPT !.title = resReq.title,
                                    !.file_url = resReq.file_url,
                                    !.file_size = IF resReq.file = None THEN @
                                                  ELSE resReq.file.content.len]
                     : r \in resources}
             /\ resReq' = [resReq EXCEPT !.pc = "done", !.title = None,
                                         !.old_file_path = 0,
                                         !.resp = Returned(200)]
        ELSE /\ resReq' = [resReq EXCEPT !.pc = "done", !.title = None,
                                         !.old_file_path = 0,
                                         !.resp = Raised(CommitFailed)]
             /\ UNCHANGED resources
    /\ UNCHANGED <<upload_root, uuid4>>
    /\ UNCHANGED <<regVars, teamVars, loginVars, call, authVars, event_resp>>

\* DELETE /resources/{id} up to db.commit(): the lookup and the deletion of
\* the file
delete_resource ==
    /\ resReq.pc = "done"
    /\ \E resource_id \in ResourceIdInputs :
        LET req == [op |-> "delete_resource", pc |-> "commit", id |-> resource_id,
                    file |-> None, title |-> None, file_url |-> 0,
                    old_file_path |-> 0, resp |-> Returned(0)]
        IN  IF ResourceOf(resource_id) = {}
            THEN /\ resReq' = [req EXCEPT !.pc = "done",
                                          !.resp = Raised(ResourceNotFound)]
                 /\ UNCHANGED upload_root
            ELSE LET resource == CHOOSE r \in ResourceOf(resource_id) : TRUE
                 IN  /\ upload_root' = upload_root \ {resource.file_url}
                     /\ resReq' = [req EXCEPT !.file_url = resource.file_url]
    /\ UNCHANGED <<resources, uuid4>>
    /\ UNCHANGED <<regVars, teamVars, loginVars, call, authVars, event_resp>>

\* DELETE /resources/{id}: db.delete(resource), db.commit(), which may raise
delete_resource_commit ==
    /\ resReq.op = "delete_resource"
    /\ resReq.pc = "commit"
    /\ \E committed \in BOOLEAN :
        IF committed
        THEN /\ resources' = resources \ ResourceOf(resReq.id)
             /\ resReq' = [resReq EXCEPT !.pc = "done", !.resp = Returned(204)]
        ELSE /\ resReq' = [resReq EXCEPT !.pc = "done", !.resp = Raised(CommitFailed)]
             /\ UNCHANGED resources
    /\ UNCHANGED <<upload_root, uuid4>>
    /\ UNCHANGED <<regVars, teamVars, loginVars, call, authVars, event_resp>>

InitRes ==
    /\ resources = {}
    /\ upload_root = {}
    /\ uuid4 = 0
    /\ resReq = NoResReq

NextRes ==
    \/ create_resource
    \/ create_resource_commit
    \/ update_resource
    \/ update_resource_save
    \/ update_resource_commit
    \/ delete_resource
    \/ delete_resource_commit

-----------------------------------------------------------------------------
(* The sanitizer on its own: utils/validation.py *)

\* bound: length of the strings given to the sanitizer
MaxInputLen == 3

SanitizeAlphabet == {"a", " ", "<", ">", "&"}

\* the strings over the alphabet, up to the bound
SanitizeStrings ==
    UNION {[1..n -> SanitizeAlphabet] : n \in 0..MaxInputLen}

\* the values a caller may pass as input_str: strings and values of other types
SanitizeValues ==
    [type : {"str"}, v : SanitizeStrings] \cup
    {[type |-> "int", v |-> <<>>], [type |-> "NoneType", v |-> <<>>]}

\* max_length: None or a number
MaxLengthInputs == {None} \cup {<<n>> : n \in 0..MaxInputLen}

\* sanitize_string from its first line: a value that is no str yields ""
sanitize_string_of(value, max_length) ==
    IF value.type # "str"
    THEN <<>>
    ELSE sanitize_string(value.v, IF max_length = None THEN 0 ELSE max_length[1])

SanitizeCalls ==
    [fn : {"sanitize_string"}, pc : {"called"}, input_str : SanitizeValues,
     max_length : MaxLengthInputs]

\* sanitize_string is called, and then called again on what it returned
sanitize_call ==
    /\ call.fn = "sanitize_string"
    /\ call.pc = "called"
    /\ LET out == sanitize_string_of(call.input_str, call.max_length)
       IN  call' = [fn |-> "sanitize_string", pc |-> "returned",
                    input_str |-> call.input_str, max_length |-> call.max_length,
                    out |-> out,
                    again |-> sanitize_string_of([type |-> "str", v |-> out],
                                                 call.max_length)]
    /\ UNCHANGED <<regVars, teamVars, loginVars, authVars, resVars, event_resp>>

-----------------------------------------------------------------------------
(* The free-text fields on their way to the tables *)

EventTitleMaxLen == 200

\* the tags sanitize_text lets through, of which the model writes "u"
allowed_tags == { <<"u">>, <<"/", "u">> }

\* bleach.clean(s, tags=allowed_tags, attributes={}, strip=True): an allowed
\* tag stays, any other tag is removed, other markup characters are escaped
RECURSIVE BleachCleanAllowingFrom(_, _)
BleachCleanAllowingFrom(s, i) ==
    IF i > Len(s) THEN <<>>
    ELSE IF IsTagAt(s, i) /\ SubSeq(s, i + 1, FindClose(s, i + 1) - 1) \in allowed_tags
         THEN SubSeq(s, i, FindClose(s, i + 1))
                  \o BleachCleanAllowingFrom(s, FindClose(s, i + 1) + 1)
    ELSE IF IsTagAt(s, i) THEN BleachCleanAllowingFrom(s, FindClose(s, i + 1) + 1)
    ELSE IF s[i] = "<" THEN <<"&", "l", "t", ";">> \o BleachCleanAllowingFrom(s, i + 1)
    ELSE IF s[i] = ">" THEN <<"&", "g", "t", ";">> \o BleachCleanAllowingFrom(s, i + 1)
    ELSE IF s[i] = "&" /\ ~IsEntityAt(s, i)
         THEN <<"&", "a", "m", "p", ";">> \o BleachCleanAllowingFrom(s, i + 1)
    ELSE <<s[i]>> \o BleachCleanAllowingFrom(s, i + 1)

sanitize_text(input_str) == Strip(BleachCleanAllowingFrom(input_str, 1))

FreeTextFields ==
    {"Event.title", "Event.description", "Registration.operative_name",
     "Resource.title", "HackathonTeam.team_name", "HackathonTeam.event_name",
     "TeamMember.name", "TeamMember.department"}

\* request values: plain, padded, with a tag, with an allowed tag
FreeTextInputs ==
    { <<"a">>, <<" ", "a">>, <<"<", "b", ">", "h">>, <<"<", "u", ">", "a">> }

\* the value that the handler of the field stores for the request value raw
Stored(field, raw) ==
    CASE field = "Event.title" -> sanitize_string(raw, EventTitleMaxLen)
      [] field = "Event.description" -> sanitize_text(raw)
      [] field = "Registration.operative_name" ->
             sanitize_string(raw, OperativeNameMaxLen)
      [] field = "Resource.title" -> sanitize_string(raw, ResourceTitleMaxLen)
      [] field = "HackathonTeam.team_name" ->
             TeamRowOf([IdleTeam EXCEPT !.team_name = raw]).team_name
      [] field = "HackathonTeam.event_name" ->
             TeamRowOf([IdleTeam EXCEPT !.event_name = raw]).event_name
      [] field = "TeamMember.name" -> sanitize_string(raw, MemberNameMaxLen)
      [] field = "TeamMember.department" -> raw

PersistCalls ==
    [fn : {"persist"}, pc : {"called"}, field : FreeTextFields, raw : FreeTextInputs]

\* a write handler takes the value of a field from the request to its row
persist_call ==
    /\ call.fn = "persist"
    /\ call.pc = "called"
    /\ call' = [fn |-> "persist", pc |-> "returned", field |-> call.field,
                raw |-> call.raw, out |-> Stored(call.field, call.raw)]
    /\ UNCHANGED <<regVars, teamVars, loginVars, authVars, resVars, event_resp>>

-----------------------------------------------------------------------------
(* Failures of the store inside the write handlers *)

\* str(e) of the exceptions the store or the file system may raise
StorageFailures ==
    { "could not connect to server: db.internal:5432",
      "No space left on device: ./uploads" }

WriteHandlers == {"create_hackathon_team", "create_registration", "create_resource"}

\* create_hackathon_team catches the exception and raises HTTPException(500,
\* "Failed to create team: " + str(e)), which http_exception_handler answers
\* with that detail as the message; the other write handlers let the
\* exception through to ServerErrorMiddleware
write_failure_response(handler, e) ==
    IF handler = "create_hackathon_team"
    THEN [status_code |-> InternalServerError.status,
          content |-> create_error_response(
                          InternalServerError.status,
                          error_code_map[InternalServerError.status],
                          <<"Failed to create team: ", e>>, <<>>)]
    ELSE ServerErrorMiddleware([class |-> "Exception", detail |-> e])

FailureCalls ==
    [fn : {"write_failure"}, pc : {"called"}, handler : WriteHandlers,
     e : StorageFailures]

\* the store fails inside a write handler and the client gets the response
write_failure_call ==
    /\ call.fn = "write_failure"
    /\ call.pc = "called"
    /\ call' = [fn |-> "write_failure", pc |-> "returned", handler |-> call.handler,
                e |-> call.e, out |-> write_failure_response(call.handler, call.e)]
    /\ UNCHANGED <<regVars, teamVars, loginVars, authVars, resVars, event_resp>>

-----------------------------------------------------------------------------
(* The routes and their dependencies: the signatures of api/*.py *)

\* api/events.py with a delete_event that does not declare get_current_user
events_dependencies_delete_event_open ==
    [create_event |-> {"get_db", "get_current_user"},
     update_event |-> {"get_db", "get_current_user"},
     delete_event |-> {"get_db"}]

\* Depends(...) in the signatures of the writing routes of api/events.py
events_dependencies ==
    [create_event |-> {"get_db", "get_current_user"},
     update_event |-> {"get_db", "get_current_user"},
     delete_event |-> {"get_db", "get_current_user"}]

\* Depends(...) in the signatures of the writing routes of api/resources.py
resources_dependencies ==
    [create_resource |-> {"get_db", "get_current_user"},
     update_resource |-> {"get_db", "get_current_user"},
     delete_resource |-> {"get_db", "get_current_user"}]

\* Depends(...) in the signatures of the routes of api/registrations.py
registrations_dependencies ==
    [create_registration |-> {"get_db"},
     get_registrations |-> {"get_db", "get_current_user"},
     get_registration |-> {"get_db", "get_current_user"},
     export_registrations_csv |-> {"get_db", "get_current_user"}]

\* Depends(...) in the signature of the route of api/hackathon_teams.py
hackathon_teams_dependencies ==
    [create_hackathon_team |-> {"get_db"}]

\* the routes of the routers main.py includes, each with its dependencies
dependencies ==
    events_dependencies @@ resources_dependencies @@ registrations_dependencies
        @@ hackathon_teams_dependencies

\* what a client sends as its Authorization header: nothing, or a token it was
\* given, as issued or altered
Credentials ==
    {[presented |-> None, how |-> "no token"]}
    \cup {[presented |-> <<Presented(token, how)>>, how |-> how] :
             token \in tokens, how \in Presentations}

\* the routers, by the tables they write: api/events.py and
\* api/registrations.py (a registration reads the events), api/resources.py,
\* api/hackathon_teams.py
EventRoutes ==
    {"create_event", "update_event", "delete_event", "get_registrations",
     "get_registration", "export_registrations_csv", "create_registration"}

ResourceRoutes == {"create_resource", "update_resource", "delete_resource"}

\* the requests of one run go to routers that share tables: the tables of the
\* other routers are as they were at the start
OtherRoutersUntouched(route) ==
    CASE route \in EventRoutes -> InitRes /\ InitTeam
      [] route \in ResourceRoutes -> InitReg /\ InitTeam
      [] OTHER -> InitReg /\ InitRes

\* FastAPI solves the dependencies of a route before it calls the handler: a
\* route that declares get_current_user gets its user from the credentials,
\* and a dependency that raises is the response.  Without an Authorization
\* header the security scheme raises by itself, 401 or 403.
solve_dependencies ==
    \E route \in DOMAIN dependencies, credentials \in Credentials :
      \E not_authenticated \in IF credentials.presented = None
                                THEN {Unauthorized, Forbidden} ELSE {Unauthorized} :
        /\ auth_resp.op \notin DOMAIN dependencies
        /\ OtherRoutersUntouched(route)
        /\ LET r == IF "get_current_user" \notin dependencies[route]
                    THEN [resp |-> [status |-> 200, code |-> ""], username |-> <<>>]
                    ELSE IF credentials.presented = None
                    THEN [resp |-> not_authenticated, username |-> <<>>]
                    ELSE get_current_user(credentials.presented[1], auth_now)
           IN  auth_resp' = [op |-> route, status |-> r.resp.status,
                             code |-> r.resp.code, username |-> r.username,
                             presented |-> credentials.presented,
                             how |-> credentials.how]
        /\ UNCHANGED <<users, auth_now, tokens>>
        /\ UNCHANGED <<storage, expirations, event_loop, loginReq, admitted_log,
                       window_admitted>>
        /\ UNCHANGED <<regVars, teamVars, call, resVars, event_resp>>

\* the dependencies of the route are solved: its handler runs
admitted(route) ==
    auth_resp.op = route /\ auth_resp.status = 200

\* the bodies the handlers are given behind the dependencies
GateUpload ==
    CHOOSE f \in RouteUploads : f.content.len = 4 /\ f.content.head = PDFSignature

GateTitle == sanitize_string(<<"a">>, ResourceTitleMaxLen)

GateMoodleId == <<"2", "2", "1", "0", "4", "0", "0", "1">>

GateOperativeName == sanitize_string(<<"a">>, OperativeNameMaxLen)

GateMembers == MembersWithLeaders(<<TRUE, FALSE, FALSE, FALSE>>)

\* the handlers of api/events.py behind their dependencies
route_create_event == admitted("create_event") /\ create_event

route_update_event == admitted("update_event") /\ update_event

route_delete_event == admitted("delete_event") /\ delete_event

\* the handlers of api/resources.py behind their dependencies
route_create_resource ==
    /\ admitted("create_resource")
    /\ create_resource \/ create_resource_commit
    /\ resReq'.file = GateUpload
    /\ resReq'.title \in {None, GateTitle}

route_update_resource ==
    /\ admitted("update_resource")
    /\ update_resource \/ update_resource_save \/ update_resource_commit
    /\ resReq'.file \in {None, GateUpload}
    /\ resReq'.title \in {None, GateTitle}

route_delete_resource ==
    /\ admitted("delete_resource")
    /\ delete_resource \/ delete_resource_commit

\* create_registration and create_hackathon_team behind their dependencies,
\* one request at a time
route_create_registration ==
    /\ admitted("create_registration")
    /\ \/ create_registration_lookup(1)
       \/ create_registration_insert(1)
       \/ reg_response_sent(1)
    /\ regReq'[1].event_id \in {"", "e1"}
    /\ regReq'[1].moodle_id \in {<<>>, GateMoodleId}
    /\ regReq'[1].operative_name \in {<<>>, GateOperativeName}

route_create_hackathon_team ==
    /\ admitted("create_hackathon_team")
    /\ \/ create_hackathon_team_flush(1)
       \/ create_hackathon_team_commit(1)
       \/ team_response_sent(1)
    /\ teamReq'[1].event_name \in {<<>>, <<"h">>}
    /\ teamReq'[1].team_name \in {<<>>, <<"x">>}
    /\ teamReq'[1].members \in {<<>>, GateMembers}

\* the response of the route is sent, the dependency's or the handler's: the
\* next request may come
route_response_sent ==
    /\ auth_resp.op \in DOMAIN dependencies
    /\ resReq.pc = "done" /\ regReq[1].pc = "idle" /\ teamReq[1].pc = "idle"
    /\ auth_resp' = NoAuthResp
    /\ UNCHANGED <<users, auth_now, tokens>>
    /\ UNCHANGED <<storage, expirations, event_loop, loginReq, admitted_log,
                   window_admitted>>
    /\ UNCHANGED <<regVars, teamVars, call, resVars, event_resp>>

\* the tokens in circulation at once
MaxTokens == 1

\* a login while fewer than MaxTokens tokens have been issued
gate_login == Cardinality(tokens) < MaxTokens /\ login_issue

\* the routes behind their dependencies, and what makes and unmakes a valid
\* token: a login, a deactivation, the clock.  get_registrations,
\* get_registration and export_registrations_csv write nothing: their
\* requests go from solve_dependencies to route_response_sent.
NextGate ==
    \/ solve_dependencies
    \/ route_create_event
    \/ route_update_event
    \/ route_delete_event
    \/ route_create_resource
    \/ route_update_resource
    \/ route_delete_resource
    \/ route_create_registration
    \/ route_create_hackathon_team
    \/ route_response_sent
    \/ gate_login
    \/ deactivate
    \/ AuthTick

-----------------------------------------------------------------------------
(* The calls of the functions, one at a time *)

\* the function calls start from any of their inputs
InitCalls ==
    call \in VerifyPasswordCalls \cup TokenCalls \cup RespondCalls \cup UploadCalls
             \cup SanitizeCalls \cup PersistCalls \cup FailureCalls

NextCalls ==
    \/ verify_password_call
    \/ token_call
    \/ respond_call
    \/ upload_call
    \/ sanitize_call
    \/ persist_call
    \/ write_failure_call

-----------------------------------------------------------------------------
(* Specifications *)

Init ==
    /\ InitReg /\ InitTeam /\ InitLogin /\ InitAuth /\ InitRes /\ InitEvents
    /\ call = NoCall

\* the function calls, from any of their inputs
InitOfCalls ==
    /\ InitReg /\ InitTeam /\ InitLogin /\ InitAuth /\ InitRes /\ InitEvents
    /\ InitCalls

SpecReg == Init /\ [][NextReg]_vars

SpecTeam == Init /\ [][NextTeam]_vars

SpecLogin == Init /\ [][NextLogin]_vars

SpecCalls == InitOfCalls /\ [][NextCalls]_vars

SpecAuth == Init /\ [][NextAuth]_vars

SpecRes == Init /\ [][NextRes]_vars

SpecEvents == Init /\ [][NextEvents]_vars

SpecGate == Init /\ [][NextGate]_vars

-----------------------------------------------------------------------------
(* Properties of create_registration *)

ValidMoodleIds == {m \in MoodleIdInputs : validate_moodle_id(m)}

\* the request of slot r got past validation and the event lookup
PassedLookup(r) ==
    regReq[r].pc = "done" /\ regReq[r].resp \in {Created, ConflictError}

SamePair(r1, r2) ==
    /\ regReq[r1].event_id = regReq[r2].event_id
    /\ regReq[r1].moodle_id = regReq[r2].moodle_id

RowsOfRequest(r) ==
    RowsOfPair(registrations, regReq[r].event_id, regReq[r].moodle_id)

\* C1: registering the same (event_id, moodle_id) twice against an active
\* event: the call that finds no row of the pair is answered 201, the call
\* made when the row is already there is answered 409 CONFLICT, and after
\* either answer exactly one row of the pair is stored.
C1_SecondRegistrationConflicts ==
    \A r \in RegSlots :
        PassedLookup(r) =>
            /\ Cardinality(RowsOfRequest(r)) = 1
            /\ regReq[r].dup_at_lookup =>
                   regReq[r].resp = ConflictError /\ regReq[r].resp.status = 409

\* C1 witness: a first call answered 201 and a later call of the same pair,
\* which saw the row at its lookup, answered 409
C1_Witness ==
    \E r1, r2 \in RegSlots :
        /\ r1 # r2
        /\ PassedLookup(r1) /\ PassedLookup(r2) /\ SamePair(r1, r2)
        /\ regReq[r1].resp = Created
        /\ regReq[r2].resp = ConflictError /\ regReq[r2].dup_at_lookup
        /\ Cardinality(RowsOfRequest(r2)) = 1

\* C2: under every interleaving at most one row exists per (event_id,
\* moodle_id); of two requests of the same pair that both passed the event
\* lookup at most one is answered 201 and a row of the pair is stored; a 409
\* is only ever caused by a row of the same event and moodle id, so the same
\* moodle id is accepted for every other active event.
C2_UniquePairUnderRaces ==
    /\ \A e \in EventIds, m \in ValidMoodleIds :
           Cardinality(RowsOfPair(registrations, e, m)) <= 1
    /\ \A r1, r2 \in RegSlots :
           (r1 # r2 /\ PassedLookup(r1) /\ PassedLookup(r2) /\ SamePair(r1, r2)) =>
               /\ ~(regReq[r1].resp = Created /\ regReq[r2].resp = Created)
               /\ RowsOfRequest(r1) # {}
    /\ \A r \in RegSlots :
           (regReq[r].pc = "done" /\ regReq[r].resp = ConflictError) =>
               \E row \in registrations :
                   row.event_id = regReq[r].event_id /\ row.moodle_id = regReq[r].moodle_id

\* C2 witness: two requests of one pair that both passed the lookup before
\* either row was stored; one got 201, the other 409, while the same moodle
\* id is registered for the other event too
C2_Witness ==
    \E r1, r2 \in RegSlots :
        /\ r1 # r2
        /\ PassedLookup(r1) /\ PassedLookup(r2) /\ SamePair(r1, r2)
        /\ regReq[r1].resp = Created /\ ~regReq[r1].dup_at_lookup
        /\ regReq[r2].resp = ConflictError /\ ~regReq[r2].dup_at_lookup
        /\ \E row \in registrations :
               row.moodle_id = regReq[r1].moodle_id /\ row.event_id # regReq[r1].event_id

\* slot r takes a request whose body is valid and looks its event up
LookupStep(r) ==
    /\ regReq[r].pc = "idle"
    /\ regReq'[r].pc # "idle"
    /\ regReq'[r].resp # RequestValidationError

\* C3: a create_registration whose event does not exist or is inactive is
\* answered 404 NOT_FOUND, never 409, whether or not a row of the same pair
\* exists, and the registrations are left as they were.
C3_InactiveEventNotFound ==
    [][\A r \in RegSlots :
          (LookupStep(r) /\ ~(events[regReq'[r].event_id].exists
                              /\ events[regReq'[r].event_id].is_active)) =>
              /\ regReq'[r].pc = "done"
              /\ regReq'[r].resp = NotFoundError
              /\ regReq'[r].resp.status = 404
              /\ regReq'[r].resp.code = "NOT_FOUND"
              /\ registrations' = registrations]_vars

\* C3 witness: a request answered NOT_FOUND for an inactive event although
\* the row of its pair is stored
C3_Witness ==
    \E r \in RegSlots :
        /\ regReq[r].pc = "done"
        /\ regReq[r].resp = NotFoundError
        /\ regReq[r].dup_at_lookup
        /\ events[regReq[r].event_id].exists
        /\ ~events[regReq[r].event_id].is_active
        /\ RowsOfRequest(r) # {}

-----------------------------------------------------------------------------
(* Properties of create_hackathon_team *)

TeamRowsOfId(rows, id) == {t \in rows : t.id = id}

MemberRowsOfId(rows, id) == {m \in rows : m.team_id = id}

\* the team_members lists the claim names: three members, or four members of
\* which none or two are leaders
BadTeamShape(ms) ==
    \/ Len(ms) = 3
    \/ Len(ms) = 4 /\ Cardinality({i \in 1..4 : ms[i].is_leader}) \in {0, 2}

\* slot r takes a request
TeamRequestStep(r) ==
    teamReq[r].pc = "idle" /\ teamReq'[r].pc # "idle"

\* C4: a team of 3 members, or of 4 members with 0 or 2 leaders, is rejected
\* (422) in the step that receives it, and that step writes no HackathonTeam
\* row and no TeamMember row, committed or pending.
C4_BadTeamRejectedBeforeWrite ==
    [][\A r \in TeamSlots :
          (TeamRequestStep(r) /\ BadTeamShape(teamReq'[r].members)) =>
              /\ teamReq'[r].pc = "done"
              /\ teamReq'[r].resp = RequestValidationError
              /\ teamReq'[r].team_id = NoTeamId
              /\ hackathon_teams' = hackathon_teams
              /\ team_members' = team_members]_vars

\* C4 witness: a 3-member request and a 4-member, 2-leader request both
\* rejected while a team created earlier is stored
C4_Witness ==
    \E r1, r2 \in TeamSlots :
        /\ teamReq[r1].pc = "done" /\ teamReq[r1].resp = RequestValidationError
        /\ Len(teamReq[r1].members) = 3
        /\ teamReq[r2].pc = "done" /\ teamReq[r2].resp = RequestValidationError
        /\ Len(teamReq[r2].members) = 4
        /\ Cardinality({i \in 1..4 : teamReq[r2].members[i].is_leader}) = 2
        /\ Cardinality(hackathon_teams) = 1
        /\ Cardinality(team_members) = 4

\* the step in which the request of slot r ends because an insert failed:
\* the flush hit the unique constraint, or the store failed up to the commit
TeamInsertFailureStep(r) ==
    /\ teamReq[r].pc # "done"
    /\ teamReq'[r].pc = "done"
    /\ teamReq'[r].resp \notin {Created, RequestValidationError}
    /\ teamReq'[r].exc # "db.refresh"

\* the pair of the request slot r has just taken is already committed
CommittedPairHit(r) ==
    /\ TeamRequestStep(r)
    /\ teamReq'[r].resp # RequestValidationError
    /\ \E t \in hackathon_teams :
          /\ t.event_name = teamReq'[r].event_name
          /\ t.team_name = sanitize_string(teamReq'[r].team_name, 100)

\* the committed rows hold nothing of team id, or the team with 4 members
NothingOrWhole(teams, members, id) ==
    \/ TeamRowsOfId(teams, id) = {} /\ MemberRowsOfId(members, id) = {}
    \/ /\ Cardinality(TeamRowsOfId(teams, id)) = 1
       /\ Cardinality(MemberRowsOfId(members, id)) = 4

\* C5: create_hackathon_team is all-or-nothing.  While the transaction is
\* open its rows are not among the committed rows; every step of a request
\* leaves either nothing or the whole team committed; when an insert of the
\* request fails, at the flush or after it, the committed tables are those
\* of before and hold no row of the request's team; a violation of the
\* (event_name, team_name) constraint is answered 409 CONFLICT.
C5_TeamAllOrNothing ==
    [][\A r \in TeamSlots :
          /\ teamReq'[r].pc = "members" =>
                /\ TeamRowsOfId(hackathon_teams', teamReq'[r].team_id) = {}
                /\ MemberRowsOfId(team_members', teamReq'[r].team_id) = {}
          /\ teamReq[r].pc = "members" =>
                NothingOrWhole(hackathon_teams', team_members', teamReq[r].team_id)
          /\ TeamInsertFailureStep(r) =>
                /\ hackathon_teams' = hackathon_teams
                /\ team_members' = team_members
                /\ teamReq[r].pc = "members" =>
                      /\ TeamRowsOfId(hackathon_teams', teamReq[r].team_id) = {}
                      /\ MemberRowsOfId(team_members', teamReq[r].team_id) = {}
          /\ CommittedPairHit(r) =>
                /\ teamReq'[r].pc = "done"
                /\ teamReq'[r].resp = ConflictError
                /\ teamReq'[r].resp.status = 409]_vars

\* C5 witness: one request failed at the commit, after its team row was
\* flushed (500), another hit the unique constraint (409), and one team is
\* stored whole
C5_Witness ==
    \E r1, r2 \in TeamSlots :
        /\ teamReq[r1].pc = "done" /\ teamReq[r1].resp = InternalServerError
        /\ teamReq[r1].exc = "db.commit"
        /\ teamReq[r2].pc = "done" /\ teamReq[r2].resp = ConflictError
        /\ Cardinality(hackathon_teams) = 1
        /\ Cardinality(team_members) = 4

\* C6: every persisted team has exactly 4 member rows, exactly 1 of them a
\* leader, every member row belongs to a persisted team, and no two
\* persisted teams share (event_name, team_name), team_name being the stored,
\* sanitized name.
C6_TeamShapeAndUniqueName ==
    /\ \A t \in hackathon_teams :
          /\ Cardinality(MemberRowsOfId(team_members, t.id)) = 4
          /\ Cardinality({m \in MemberRowsOfId(team_members, t.id) : m.is_leader}) = 1
    /\ \A m \in team_members : TeamRowsOfId(hackathon_teams, m.team_id) # {}
    /\ \A t1, t2 \in hackathon_teams :
          (t1.event_name = t2.event_name /\ t1.team_name = t2.team_name) => t1 = t2

\* C6 witness: teams are stored under both events, and a request whose raw
\* team name differs from a stored name but sanitizes to it got 409
C6_Witness ==
    /\ Cardinality(hackathon_teams) >= 2
    /\ Cardinality(team_members) >= 8
    /\ \E r \in TeamSlots, t \in hackathon_teams :
          /\ teamReq[r].pc = "done" /\ teamReq[r].resp = ConflictError
          /\ t.event_name = teamReq[r].event_name
          /\ t.team_name # teamReq[r].team_name
          /\ t.team_name = sanitize_string(teamReq[r].team_name, 100)


-----------------------------------------------------------------------------
(* Properties of the login rate limit *)

\* request q takes the step that decides its hit: it leaves the bag as q
LimitDecision(q) ==
    /\ q.pc = "incr"
    /\ CopiesIn(q, loginReq') < CopiesIn(q, loginReq)

\* request q is rejected by the limiter, the verifier not having run
RejectedByLimiter(q) ==
    loginReq' = Becomes(q, Done(q.addr, FALSE, RateLimitExceeded))

\* request q is admitted and the verifier runs
AdmittedToVerifier(q) ==
    \E resp \in {Unauthorized, Forbidden, TokenResponse, InternalServerError} :
        loginReq' = Becomes(q, Done(q.addr, TRUE, resp))

\* C7: an attempt of a client of whom 5 attempts were made during the last 15
\* minutes is rejected with status 429 before the credential verifier runs,
\* whatever its credentials (stated for the observed client, of whom the
\* attempts that reached the verifier are recorded with their age)
C7_SixthAttemptRejected ==
    [][\A q \in BagToSet(loginReq) :
          (LimitDecision(q) /\ q.addr = Observed /\ AdmittedInLastWindow >= LimitAmount)
              => RejectedByLimiter(q)]_vars

\* C8: in every interval of 15 minutes at most 5 attempts of a client reach the
\* credential verifier (stated for the observed client)
C8_SlidingWindow == AdmittedInLastWindow <= LimitAmount

\* the counter of address b, and so whether an attempt of b is admitted
CounterOf(b) ==
    <<storage[limit_key(b)], expirations[limit_key(b)], window_admitted[limit_key(b)]>>

\* request q takes a step of its hit
HitStep(q) ==
    /\ q.pc \in {"queued", "incr"}
    /\ CopiesIn(q, loginReq') < CopiesIn(q, loginReq)

\* C9: the limiter resets after the window and per key. An attempt of a key
\* whose counter has expired, and an attempt of the observed client none of
\* whose attempts was admitted during the last 15 minutes, is admitted; and no
\* step of a request changes the counter of another address.
C9_ResetPerKey ==
    [][\A q \in BagToSet(loginReq) :
          /\ LimitDecision(q) =>
                /\ (q.seen = 0 /\ KeyExpired(limit_key(q.addr))) => AdmittedToVerifier(q)
                /\ (q.addr = Observed /\ AdmittedInLastWindow = 0) => AdmittedToVerifier(q)
          /\ HitStep(q) =>
                \A b \in Addrs \ {q.addr} : CounterOf(b)' = CounterOf(b)]_vars

\* the observed client was rejected (its 429 is still undelivered), its window
\* has elapsed and it has been admitted again on a fresh counter, while the
\* counter of the other address runs on
C9_Witness ==
    /\ BagIn(Done(Observed, FALSE, RateLimitExceeded), loginReq)
    /\ \E resp \in {Unauthorized, TokenResponse} :
          BagIn(Done(Observed, TRUE, resp), loginReq)
    /\ storage[Observed] = 1
    /\ expirations[Observed] = WindowMinutes
    /\ \E b \in Addrs \ {Observed} : storage[b] >= 1 /\ expirations[b] < WindowMinutes

\* C10: whatever the interleaving of the requests of an address, at most 5 of
\* them are admitted on one counter, that is in one window
C10_AtomicIncrementAndCheck ==
    \A a \in Addrs : window_admitted[a] <= LimitAmount

\* two requests of one address are in flight at once on a counter with one
\* admission left: one has read the counter and not yet written it, the other
\* waits for its hit
C10_Witness ==
    \E a \in Addrs :
        /\ window_admitted[a] = LimitAmount - 1
        /\ storage[a] = LimitAmount - 1
        /\ BagIn([Queued(a) EXCEPT !.pc = "incr", !.seen = LimitAmount - 1], loginReq)
        /\ BagIn(Queued(a), loginReq)

-----------------------------------------------------------------------------
(* Properties of the tokens and of the authentication routes *)

\* a request of GET /api/auth/me is answered
MeStep == auth_resp'.op = "me" /\ auth_resp' # auth_resp

\* a request of login is answered
LoginIssueStep == auth_resp'.op = "login" /\ auth_resp' # auth_resp

\* C11: GET /me with the token a login has just returned (the last response
\* is that login's, its principal is still active and the token unexpired)
\* answers 200 and the username of the login; a token that has expired or
\* that the client altered is answered 401 UNAUTHORIZED
C11_LoginThenMe ==
    [][MeStep =>
          /\ (/\ auth_resp.op = "login"
              /\ auth_resp.status = 200
              /\ auth_resp'.presented = auth_resp.presented
              /\ users[auth_resp.username].is_active
              /\ auth_resp.presented[1].claims.exp >= auth_now)
                => (auth_resp'.status = 200 /\ auth_resp'.username = auth_resp.username)
          /\ (\/ auth_resp'.how # "as issued"
              \/ auth_resp'.presented[1].claims.exp < auth_now)
                => (auth_resp'.status = 401 /\ auth_resp'.code = "UNAUTHORIZED")]_vars

\* GET /me has echoed the admin for the token login issued this very second,
\* and a token that has expired is among those held
C11_Witness ==
    /\ auth_resp.op = "me"
    /\ auth_resp.how = "as issued"
    /\ auth_resp.status = 200
    /\ auth_resp.username = AdminUsername
    /\ auth_resp.presented[1].claims.iat = auth_now
    /\ \E t \in tokens : t.claims.exp < auth_now

\* the expiry the claim gives a token: issue time plus expires_delta when one
\* is given, else plus the configured TTL
ClaimedExpiry(c) ==
    c.iat + (IF c.expires_delta # None THEN c.expires_delta[1] ELSE jwt_expiration_seconds)

\* C12: decode_access_token returns the whole payload or None, and a payload
\* only for a token as the server signed it whose expiry (issue time plus the
\* TTL, or plus expires_delta when given) has not passed
C12_DecodeFailsClosed ==
    (call.fn = "token" /\ call.pc = "returned") =>
        /\ call.out \in {None, <<call.presented.claims>>}
        /\ call.out # None => (call.how = "as issued" /\ call.at <= ClaimedExpiry(call))

\* C13: an admin-only request with a token whose principal is no longer active
\* is rejected, though the token is correctly signed and unexpired
C13_DeactivatedTokenRejected ==
    [][(/\ MeStep
        /\ decode_access_token(auth_resp'.presented[1], auth_now) # None
        /\ ~users[auth_resp'.presented[1].claims.sub].is_active)
          => auth_resp'.status = 403]_vars

\* the admin was deactivated after login issued its token; the token, as
\* issued and unexpired, has been rejected
C13_Witness ==
    /\ auth_resp.op = "me"
    /\ auth_resp.how = "as issued"
    /\ auth_resp.status = 403
    /\ auth_resp.presented[1] \in tokens
    /\ auth_resp.presented[1].claims.exp >= auth_now
    /\ ~users[AdminUsername].is_active

\* C14: a login answered Unauthorized or Forbidden issues no token and leaves
\* the users table as it was; correct credentials of an inactive principal are
\* answered 403 FORBIDDEN; and last_login changes in no step but a login
\* answered with a token
C14_LastLoginOnlyOnSuccess ==
    [][/\ LoginIssueStep =>
             /\ auth_resp'.status \in {401, 403} =>
                   (users' = users /\ tokens' = tokens /\ auth_resp'.presented = None)
             /\ (/\ auth_resp'.how = "correct"
                 /\ ~users[auth_resp'.username].is_active)
                   => (auth_resp'.status = 403 /\ auth_resp'.code = "FORBIDDEN")
       /\ (\E u \in DOMAIN users : users'[u].last_login # users[u].last_login)
             => (LoginIssueStep /\ auth_resp'.status = 200)]_vars

\* the admin, deactivated before ever logging in, has been answered 403 for
\* its correct credentials, and its last_login is still unset
C14_Witness ==
    /\ auth_resp.op = "login"
    /\ auth_resp.how = "correct"
    /\ auth_resp.status = 403
    /\ ~users[AdminUsername].is_active
    /\ users[AdminUsername].last_login = 0
    /\ tokens = {}

\* C15: verify_password returns True or False, True exactly for the hash of
\* the plaintext, and raises for no stored value
C15_VerifyPasswordNeverRaises ==
    (call.fn = "verify_password" /\ call.pc = "returned") =>
        /\ call.out \in {"True", "False"}
        /\ call.out = "True" <=> call.hashed_password = hash_password(call.plain_password)

-----------------------------------------------------------------------------
(* Properties of the upload checks and of the resource routes *)

\* the four checks as the specification numbers them; the fourth includes
\* the optional content sniffing, which corroborates the signature
PassesCheck(n, file) ==
    CASE n = 1 -> endswith(lower(file.filename), <<".", "p", "d", "f">>)
      [] n = 2 -> file.content_type = "application/pdf"
      [] n = 3 -> file.content.len <= max_file_size_bytes
      [] n = 4 -> /\ file.content.len >= 4
                  /\ SubSeq(file.content.head, 1, 4) = PDFSignature
                  /\ file.magic \in {"ImportError", "application/pdf"}

FailedChecks(file) == {n \in 1..4 : ~PassesCheck(n, file)}

\* the rejection that each check reports
RejectionOf(n) ==
    CASE n = 1 -> HTTPException(400, "File must be a PDF (.pdf extension required)")
      [] n = 2 -> HTTPException(400, "File must be of type application/pdf")
      [] n = 3 -> HTTPException(413, "File size exceeds maximum allowed size of 10MB")
      [] n = 4 -> HTTPException(400, "File is not a valid PDF")

UploadChecked == call.fn = "upload" /\ call.pc = "returned"

\* C16: the checks of an upload run in the order suffix, content type, size,
\* signature and stop at the first failure: an upload that fails several
\* checks is rejected with the rejection of the lowest-numbered one, an upload
\* that fails none is accepted, a file of exactly the maximum size passes the
\* size check and a file of fewer than four bytes is rejected by the fourth
C16_ValidatorOrder ==
    UploadChecked =>
        LET failed == FailedChecks(call.file)
            first == CHOOSE n \in failed : \A m \in failed : n <= m
        IN  /\ IF failed = {} THEN call.out = None
                              ELSE call.out = <<RejectionOf(first)>>
            /\ (call.file.content.len = max_file_size_bytes /\ failed \subseteq {3})
                   => call.out = None
            /\ (call.file.content.len < 4 /\ failed \cap {1, 2} = {})
                   => call.out = <<RejectionOf(4)>>

\* an upload over the maximum size and without the signature was rejected as
\* too large
C16_Witness ==
    /\ UploadChecked
    /\ FailedChecks(call.file) = {3, 4}
    /\ call.out = <<RejectionOf(3)>>

\* evil.pdf: the name and the declared type of a PDF, without its signature
IsEvilPdf(file) ==
    /\ file # None
    /\ file.filename = <<"e", "v", "i", "l", ".", "p", "d", "f">>
    /\ file.content_type = "application/pdf"
    /\ \/ file.content.len < 4
       \/ SubSeq(file.content.head, 1, 4) # PDFSignature

\* a step of a request that uploads evil.pdf, for a resource that exists
EvilPdfStep ==
    /\ resReq' # resReq
    /\ resReq'.op \in {"create_resource", "update_resource"}
    /\ IsEvilPdf(resReq'.file)
    /\ resReq'.resp # Raised(ResourceNotFound)

\* C17: an upload of evil.pdf through create_resource or update_resource is
\* answered 400, and no step of the request changes the files of the upload
\* root or the rows of resources
C17_EvilPdfLeavesNoTrace ==
    [][EvilPdfStep =>
          /\ upload_root' = upload_root
          /\ resources' = resources
          /\ resReq'.pc = "done" => resReq'.resp.status = 400]_vars

\* the files that the step removes from the upload root
FilesDeleted == upload_root \ upload_root'

\* C18: update_resource replaces a file in the order write-new, commit-row,
\* delete-old: when a step of it deletes a file, the committed row of the
\* resource already points to another file, which is in the upload root
C18_UpdateDeletesOldLast ==
    [][\A f \in FilesDeleted :
          resReq'.op = "update_resource" =>
              \E r \in resources : /\ r.id = resReq'.id
                                   /\ r.file_url # f
                                   /\ r.file_url \in upload_root]_vars

\* C19: delete_resource works in the order delete-row, delete-file: when a
\* step of it deletes a file, no committed row points to that file any more
C19_DeleteRowBeforeFile ==
    [][\A f \in FilesDeleted :
          resReq'.op = "delete_resource" =>
              \A r \in resources : r.file_url # f]_vars

-----------------------------------------------------------------------------
(* Properties of the exception handlers *)

ErrorCodes ==
    {"UNAUTHORIZED", "FORBIDDEN", "NOT_FOUND", "CONFLICT", "VALIDATION_ERROR",
     "PAYLOAD_TOO_LARGE", "TOO_MANY_REQUESTS", "INTERNAL_SERVER_ERROR"}

\* the response has the envelope, with one of the codes
WellFormedError(response) ==
    /\ HasEnvelope(response.content)
    /\ response.content.error.code \in ErrorCodes

\* C20: every response that is not 2xx, whichever exception it comes from,
\* has the envelope {error: {code, message, details}} with one of the eight
\* codes, and every other failure answered with the same status carries the
\* same code
C20_ErrorEnvelope ==
    (call.fn = "respond" /\ call.pc = "returned"
        /\ call.out.status_code \notin 200..299) =>
        /\ WellFormedError(call.out)
        /\ \A exc \in Exceptions :
              LET other == exception_handler(exc)
              IN  other.status_code = call.out.status_code =>
                      /\ WellFormedError(other)
                      /\ other.content.error.code = call.out.content.error.code

-----------------------------------------------------------------------------
(* Properties of the events *)

\* the step is a read of one event by its identifier
GetEventStep == event_resp'.op = "get_event" /\ event_resp' # event_resp

\* the step is a listing of the events
GetEventsStep == event_resp'.op = "get_events" /\ event_resp' # event_resp

\* C21: no operation removes an Event row, and get_event of an event that
\* was soft-deleted returns the row with is_active = false
C21_SoftDeletedStillFetched ==
    [][/\ \A e \in EventIds : events[e].exists => events'[e].exists
       /\ \A e \in EventIds :
             (GetEventStep /\ event_resp'.event_id = e /\ events[e].exists
                 /\ ~events[e].is_active) =>
                 /\ event_resp'.status = 200
                 /\ event_resp'.body = {[id |-> e, is_active |-> FALSE]}]_vars

\* get_event has returned an inactive event
C21_Witness ==
    /\ event_resp.op = "get_event"
    /\ event_resp.status = 200
    /\ \E row \in event_resp.body : ~row.is_active /\ ~events[row.id].is_active

\* C22: a listing without the is_active filter returns no soft-deleted event
C22_DefaultListingHidesInactive ==
    [][(GetEventsStep /\ event_resp'.is_active = "None") =>
          \A row \in event_resp'.body : row.is_active]_vars

-----------------------------------------------------------------------------
(* Properties of the sanitizer *)

Sanitized == call.fn = "sanitize_string" /\ call.pc = "returned"

\* C23: sanitizing a sanitized string again with the same maximum length
\* returns it unchanged
C23_SanitizerIdempotent ==
    (Sanitized /\ call.input_str.type = "str") => call.again = call.out

\* C24: for every maximum length from 0 on, sanitize_string returns a string
\* of at most that length, and the empty string for an input that is no string
C24_SilentClamp ==
    (Sanitized /\ call.max_length # None) =>
        /\ Len(call.out) <= call.max_length[1]
        /\ call.input_str.type # "str" => call.out = <<>>

\* what the sanitizer can return for a request value: the strict mode with
\* the maximum lengths in use, or the permissive mode
SanitizerOutputs(raw) ==
    {sanitize_string(raw, n) : n \in {0, OperativeNameMaxLen, EventTitleMaxLen}}
        \cup {sanitize_text(raw)}

\* C25: the value stored for a free-text field is an output of the sanitizer
\* for the request value
C25_StoredTextSanitized ==
    (call.fn = "persist" /\ call.pc = "returned") =>
        call.out \in SanitizerOutputs(call.raw)

\* C26: the response to a failure of the store inside a write handler is a
\* 500 that is the same whatever the underlying exception, so that it carries
\* nothing of the exception's text
C26_InternalErrorGeneric ==
    (call.fn = "write_failure" /\ call.pc = "returned") =>
        /\ call.out.status_code = 500
        /\ \A e \in StorageFailures :
              write_failure_response(call.handler, e) = call.out

\* C27: between requests the files of the upload root and the rows of
\* resources correspond one to one: every row's file exists, every file
\* belongs to a row, and no two rows name the same file
C27_FilesMatchRows ==
    resReq.pc = "done" =>
        /\ \A r \in resources : r.file_url \in upload_root
        /\ \A f \in upload_root : \E r \in resources : r.file_url = f
        /\ \A r1, r2 \in resources : r1.file_url = r2.file_url => r1 = r2

\* the step ends an update_resource request with a rejection
UpdateRejectedStep ==
    /\ resReq'.op = "update_resource"
    /\ resReq.pc # "done" \/ resReq.op # "update_resource" \/ resReq' # resReq
    /\ resReq'.pc = "done"
    /\ resReq'.resp.status \in {400, 413}

\* C28: an update_resource request that is rejected leaves the row as it was
\* and the file that was at its file_url in place
C28_RejectedUpdateChangesNothing ==
    [][UpdateRejectedStep =>
          /\ resources' = resources
          /\ \A r \in resources :
                (/\ r.id = resReq'.id
                 /\ r.file_url \in upload_root \/ r.file_url = resReq.old_file_path)
                    => r.file_url \in upload_root']_vars

-----------------------------------------------------------------------------
(* Properties of create_registration against soft deletion *)

\* C29: no Registration row is committed once the commit that made its event
\* inactive has happened: at the commit of a row its event is active
C29_NoRegistrationAfterSoftDelete ==
    [][\A row \in registrations' \ registrations :
          events[row.event_id].exists /\ events[row.event_id].is_active]_vars


-----------------------------------------------------------------------------
(* Properties of the routes behind their dependencies *)

\* the operations the specification reserves to the admin
AdminOnly ==
    {"create_event", "update_event", "delete_event", "create_resource",
     "update_resource", "delete_resource", "get_registrations", "get_registration",
     "export_registrations_csv"}

\* every row of the tables the routes write and every file of the upload root
Persisted ==
    <<events, registrations, hackathon_teams, team_members, resources, upload_root>>

\* the credentials are a token as login issued it, not expired, of a
\* principal that is active
ValidTokenOfActive(presented) ==
    /\ presented # None
    /\ presented[1] \in tokens
    /\ presented[1].claims.exp >= auth_now
    /\ presented[1].claims.sub \in DOMAIN users
    /\ users[presented[1].claims.sub].exists
    /\ users[presented[1].claims.sub].is_active

\* the step is that of a request reaching its route
RequestStep ==
    auth_resp.op \notin DOMAIN dependencies /\ auth_resp'.op \in DOMAIN dependencies

=============================================================================
